---- MODULE Spec2Model ----
(***************************************************************************)
(* PDF ingestion pipeline of unchained-docs-to-knowledge.                  *)
(*                                                                         *)
(* Spec       the FastAPI backend (app/main.py) over the SQLite record     *)
(*            store (app/database.py): process_pdf requests one after the  *)
(*            other, interleaved with update_record_summary requests and   *)
(*            delete_record.                                               *)
(* SpecRace   two process_pdf requests interleaving at the await between   *)
(*            the duplicate check and the INSERT.                          *)
(* SpecBatch  the frontend ingestion loops (frontend/data_processing.py    *)
(*            and the inlined loops of frontend/streamlit_app.py) calling  *)
(*            the same backend one file at a time.                         *)
(***************************************************************************)
EXTENDS Integers, Sequences, FiniteSets, TLC

\* ---------------------------------------------------------------- bounds
\* Largest row id the model lets the store assign (caps the insert count).
MaxId == 2

\* Largest number of files in one batch.
MaxFiles == 2

\* Longest text, in characters, handed to chunk_text.
MaxLen == 8

\* Largest max_tokens handed to chunk_text.
MaxBudget == 1

\* The summarizer's limits, scaled down with the documents of the model:
\* MAX_TOKENS_PER_CHUNK is 8000 in app/summarizer.py, and the fallback of
\* summarize_chunk keeps the first 500 characters of a chunk.
MAX_TOKENS_PER_CHUNK == 1
FALLBACK_CHARS == 1

\* Longest document, in characters, handed to summarize_document: long
\* enough for two chunks of the largest size.
MaxDocLen == 4 * (MAX_TOKENS_PER_CHUNK + 1) + 2

\* Longest text, in characters, handed to calculate_text_metrics.
MaxTextLen == 5

\* Largest number of pages of a PDF handed to extract_text_from_pdf.
MaxPages == 2

\* Largest number of script runs of the database view.
MaxRuns == 4

\* ---------------------------------------------------------------- values
\* Python None / SQL NULL.
None == "<None>"

\* Handler slots of the backend: two requests may be in flight at once.
Procs == {"p1", "p2"}

\* md5_hash of a request: absent, the empty string, or a digest.
Hashes == {None, "", "H1"}

Whitespace == {" ", "\n", "\t"}

\* The word characters of the model's alphabet (regex \w): letters, a
\* digit and the underscore.
WordChars == {"a", "b", "1", "_"}

\* Python truthiness of an Optional[str].
Truthy(s) == s # None /\ s # ""

\* text.strip() == "" for a text given as a sequence of characters.
IsBlank(text) == \A i \in 1..Len(text) : text[i] \in Whitespace

\* What summarize_document can return for a text: "" for empty or blank
\* text; otherwise what the LLM call or its fallback produced (possibly ""
\* after strip()).
summarize_document(text) ==
    IF text = << >> \/ IsBlank(text) THEN {""} ELSE {"llm", ""}

\* The number of maximal runs of word characters of a text: the positions
\* where a word character follows the start of the text or a non-word
\* character.
WordRuns(text) ==
    Cardinality({i \in 1..Len(text) :
                    /\ text[i] \in WordChars
                    /\ (i = 1 \/ text[i - 1] \notin WordChars)})

\* The argument None of a function that takes a text: a sequence holding
\* the one non-character None.
NullText == <<None>>

\* Regex \w at position i of the text (positions before the first and
\* after the last character hold no character).
IsWordChar(text, i) == i \in 1..Len(text) /\ text[i] \in WordChars

\* Regex \b in front of position i: exactly one of the characters on its
\* two sides is a word character.
WordBoundary(text, i) == IsWordChar(text, i - 1) # IsWordChar(text, i)

\* Where the match of \b\w+\b that starts at position i ends, 0 when there
\* is none: \w+ takes as many word characters as it can and gives back
\* until \b holds behind it.
MatchEnd(text, i) ==
    IF ~WordBoundary(text, i) THEN 0
    ELSE LET ends == {e \in i..Len(text) :
                        /\ \A k \in i..e : text[k] \in WordChars
                        /\ WordBoundary(text, e + 1)}
         IN  IF ends = {} THEN 0
             ELSE CHOOSE e \in ends : \A other \in ends : other <= e

\* re.findall(r"\b\w+\b", text) scanning from position i: the
\* non-overlapping matches from left to right.
RECURSIVE findall(_, _)
findall(text, i) ==
    IF i > Len(text) THEN << >>
    ELSE LET e == MatchEnd(text, i)
         IN  IF e = 0 THEN findall(text, i + 1)
             ELSE <<SubSeq(text, i, e)>> \o findall(text, e + 1)

\* A word count that splits the text at whitespace (len(text.split())).
calculate_text_metrics_split(text) ==
    IF text = NullText \/ text = << >> THEN <<0, 0>>
    ELSE <<Cardinality({i \in 1..Len(text) :
                          /\ text[i] \notin Whitespace
                          /\ (i = 1 \/ text[i - 1] \in Whitespace)}),
           Len(text)>>

\* calculate_text_metrics(text) -> <<word_count, character_length>>.
calculate_text_metrics(text) ==
    IF text = NullText \/ text = << >> THEN <<0, 0>>
    ELSE <<Len(findall(text, 1)), Len(text)>>

\* The documents submitted: a file name with the text extracted from it
\* (texts are sequences of characters).
Documents ==
    {[filename |-> "a.pdf", extracted_text |-> << >>],
     [filename |-> "b.pdf", extracted_text |-> <<"a", " ", "b">>]}

\* The metrics a client of POST /process-pdf may send along with a text:
\* the computed ones or any other integers (PDFProcessRequest does not
\* relate them to the text); the model sends one other pair, with a.pdf.
RequestMetrics(d) ==
    {calculate_text_metrics(d.extracted_text)}
        \cup (IF d.filename = "a.pdf" THEN {<<7, 9>>} ELSE {})

\* PDFProcessRequest.
Requests ==
    UNION {{[filename |-> d.filename, extracted_text |-> d.extracted_text,
             word_count |-> m[1], character_length |-> m[2],
             generate_summary |-> g, md5_hash |-> h] :
                m \in RequestMetrics(d), g \in BOOLEAN, h \in Hashes} :
           d \in Documents}

NoRequest == [filename |-> None]

\* The backend and its store.
VARIABLES
    records,      \* rows of table pdf_extracts
    seq,          \* sqlite_sequence: the largest id ever assigned
    ever,         \* the ids of all rows that ever existed
    deleted,      \* id and md5_hash of the rows with a hash deleted so far
    pc,           \* per handler slot: position inside process_pdf
    req,          \* per handler slot: the request being served
    summ,         \* per handler slot: local variable summary
    resp,         \* per handler slot: the HTTP response
    calls,        \* per handler slot: calls made while serving the request
    delSince,     \* per handler slot: a row with the request's hash was
                  \* deleted since the request began
    upc,          \* position inside PUT /records/{id}/summary
    uid,          \* its path parameter record_id
    utext,        \* record["extracted_text"] as read by get_record_by_id
    uresp,        \* its HTTP response
    ucalls        \* calls made while serving it

storeVars == <<records, seq, ever, deleted>>
submitVars == <<pc, req, summ, resp, calls, delSince>>
updateVars == <<upc, uid, utext, uresp, ucalls>>

\* The frontend ingestion loop.
VARIABLES
    bpc,            \* "idle", "running" or "returned"
    loop,           \* which batch function is running
    files,          \* its input: the sequence of files
    gen,            \* its parameter generate_summary
    idx,            \* index of the file being processed
    spos,           \* position in the stages of the current file
    log,            \* stages called for the current file, in call order
    dupReported,    \* the duplicate check reported the current file
    raised,         \* the stage that raised for the current file, or None
    saved,          \* what save_extracted_text returned while the current
                    \* file's request was served: "none" when not called
    file_md5,       \* local md5_hash: digest of the current file
    file_text,      \* local extracted_text: OCR text of the current file
    metrics,        \* local: <<word_count, character_length>>
    result,         \* local: the result dict of the current file
    counts,         \* successful_processes, skipped_processes, failed_processes
    results,        \* the per-file result list
    temp_file_path, \* local: staging copy known to the loop (0: None)
    tempFiles       \* staging copies that exist on disk

\* The record store called directly (app/database.py).
VARIABLES
    dbop            \* the last call and what it returned

dbVars == <<dbop>>

\* The summarizer (app/summarizer.py).
VARIABLES
    chunking,       \* a call of chunk_text: its arguments and its result
    spc,            \* position inside summarize_document
    doc_text,       \* its argument text
    chunked,        \* chunk_text has been called
    doc_chunks,     \* local chunks
    chunk_summaries, \* local chunk_summaries
    chunk_calls,    \* the calls of summarize_chunk, in call order
    doc_summary     \* the value returned

docVars == <<spc, doc_text, chunked, doc_chunks, chunk_summaries, chunk_calls,
             doc_summary>>

textVars == <<chunking, docVars>>

\* The text metrics (shared/pdf_processor.py).
VARIABLES
    measured        \* a call of calculate_text_metrics: argument and result

metricVars == <<measured>>

\* The text extractor (shared/pdf_processor.py).
VARIABLES
    ocr_pc,         \* position inside extract_text_from_pdf
    ocr_pdf,        \* the PDF at pdf_path
    ocr_page,       \* the loop variable i: pages read so far
    ocr_text,       \* local extracted_text
    ocr_out         \* how the call ended: the text returned or the error raised

extractVars == <<ocr_pc, ocr_pdf, ocr_page, ocr_text, ocr_out>>

\* The database view (frontend/pages/2_View_Database.py).
VARIABLES
    session_state,  \* st.session_state: delete_confirmation_id and
                    \* last_selected_record_id (0: None)
    ui_deleted,     \* ids of the records deleted from the view
    ui_log          \* the script runs so far: the record selected, whether
                    \* the delete button was clicked, whether a delete
                    \* request was sent and whether it succeeded

uiVars == <<session_state, ui_deleted, ui_log>>

auxVars == <<metricVars, extractVars, uiVars>>

libVars == <<dbVars, textVars, auxVars>>

batchVars == <<bpc, loop, files, gen, idx, spos, log, dupReported, raised, saved, file_md5,
               file_text, metrics, result, counts, results,
               temp_file_path, tempFiles>>

vars == <<records, seq, ever, deleted, pc, req, summ, resp, calls, delSince,
          upc, uid, utext, uresp, ucalls, dbop, chunking,
          spc, doc_text, chunked, doc_chunks, chunk_summaries, chunk_calls,
          doc_summary, measured, ocr_pc, ocr_pdf, ocr_page, ocr_text, ocr_out,
          session_state, ui_deleted, ui_log,
          bpc, loop, files, gen, idx, spos, log, dupReported, raised, saved, file_md5,
          file_text, metrics, result, counts, results,
          temp_file_path, tempFiles>>

\* ------------------------------------------------------------ the store
\* SELECT id, filename FROM pdf_extracts WHERE md5_hash = ? (a NULL
\* parameter matches no row).
check_duplicate_by_hash(recs, md5_hash) ==
    \E r \in recs : md5_hash # None /\ r.md5_hash # None /\ r.md5_hash = md5_hash

\* check_duplicate_by_hash as process_pdf calls it: the SELECT's answer, or
\* False from the except clause when the store raises (lookup_ok FALSE).
duplicate_lookup(recs, md5_hash, lookup_ok) ==
    lookup_ok /\ check_duplicate_by_hash(recs, md5_hash)

\* A frontend lookup that treats a failed request as "already stored".
check_duplicate_hash_fail_closed(recs, md5_hash, answered) ==
    ~answered \/ check_duplicate_by_hash(recs, md5_hash)

\* check_duplicate_hash of the frontend: the backend's is_duplicate when the
\* request is answered, False from the except clause for any exception.
check_duplicate_hash(recs, md5_hash, answered) ==
    answered /\ check_duplicate_by_hash(recs, md5_hash)

\* The table without its unique index: no insert is ever rejected.
idx_md5_hash_missing(recs, md5_hash) == FALSE

\* An index under which NULL hashes clash with one another as well.
idx_md5_hash_nulls_clash(recs, md5_hash) ==
    \E r \in recs : r.md5_hash = md5_hash

\* CREATE UNIQUE INDEX idx_md5_hash ON pdf_extracts(md5_hash): would the
\* insert of md5_hash violate it (NULLs are pairwise distinct).
idx_md5_hash_violated(recs, md5_hash) ==
    md5_hash # None /\ \E r \in recs : r.md5_hash = md5_hash

\* The row INSERTed by save_extracted_text; id is AUTOINCREMENT.
NewRow(s, filename, extracted_text, word_count, character_length, summary, md5_hash) ==
    [id |-> s + 1, filename |-> filename, extracted_text |-> extracted_text,
     word_count |-> word_count, character_length |-> character_length,
     summary |-> summary, md5_hash |-> md5_hash, created_timestamp |-> s + 1]

\* INSERT OR REPLACE in place of INSERT: a clashing row is replaced and the
\* call reports success.
save_extracted_text_replacing(recs, s, filename, extracted_text, word_count, character_length, summary, md5_hash) ==
    [ok |-> TRUE,
     records |-> {r \in recs : md5_hash = None \/ r.md5_hash # md5_hash}
                    \cup {NewRow(s, filename, extracted_text, word_count,
                                 character_length, summary, md5_hash)},
     seq |-> s + 1]

\* The table without AUTOINCREMENT: the new row gets the largest stored id
\* plus one.
save_extracted_text_rowid(recs, s, filename, extracted_text, word_count, character_length, summary, md5_hash) ==
    IF idx_md5_hash_violated(recs, md5_hash)
    THEN [ok |-> FALSE, records |-> recs, seq |-> s]
    ELSE LET top == IF recs = {} THEN 0
                    ELSE CHOOSE i \in {r.id : r \in recs} : \A r \in recs : r.id <= i
         IN [ok |-> TRUE,
             records |-> recs \cup {NewRow(top, filename, extracted_text, word_count,
                                           character_length, summary, md5_hash)},
             seq |-> top + 1]

\* save_extracted_text -> [ok, records, seq]: False and no change when the
\* INSERT raises.
save_extracted_text(recs, s, filename, extracted_text, word_count, character_length, summary, md5_hash) ==
    IF idx_md5_hash_violated(recs, md5_hash)
    THEN [ok |-> FALSE, records |-> recs, seq |-> s]
    ELSE [ok |-> TRUE,
          records |-> recs \cup {NewRow(s, filename, extracted_text, word_count,
                                        character_length, summary, md5_hash)},
          seq |-> s + 1]

\* get_record_by_id -> the set of matching rows (empty: None).
get_record_by_id(recs, record_id) == {r \in recs : r.id = record_id}

\* The UPDATE without its WHERE clause: every row gets the summary.
db_update_record_summary_all_rows(recs, record_id, summary) ==
    [ok |-> \E r \in recs : r.id = record_id,
     records |-> {[r EXCEPT !.summary = summary] : r \in recs}]

\* An update that returns True whatever cursor.rowcount says.
db_update_record_summary_rowcount_ignored(recs, record_id, summary) ==
    [ok |-> TRUE,
     records |-> {IF r.id = record_id THEN [r EXCEPT !.summary = summary] ELSE r :
                     r \in recs}]

\* UPDATE pdf_extracts SET summary = ? WHERE id = ?
db_update_record_summary(recs, record_id, summary) ==
    [ok |-> \E r \in recs : r.id = record_id,
     records |-> {IF r.id = record_id THEN [r EXCEPT !.summary = summary] ELSE r :
                     r \in recs}]

\* A delete that is never committed: the row count is reported and the
\* row stays.
delete_record_uncommitted(recs, record_id) ==
    [ok |-> \E r \in recs : r.id = record_id, records |-> recs]

\* A delete that returns True whatever cursor.rowcount says.
delete_record_rowcount_ignored(recs, record_id) ==
    [ok |-> TRUE, records |-> {r \in recs : r.id # record_id}]

\* DELETE FROM pdf_extracts WHERE id = ?
delete_record(recs, record_id) ==
    [ok |-> \E r \in recs : r.id = record_id,
     records |-> {r \in recs : r.id # record_id}]

\* ------------------------------------------------------------ responses
NoResponse == [status |-> 0, success |-> FALSE, skipped |-> FALSE,
               message |-> None, summary |-> None]

SkippedResponse == [status |-> 200, success |-> TRUE, skipped |-> TRUE,
                    message |-> "already exists (duplicate)", summary |-> None]

ProcessedResponse(summary) ==
    [status |-> 200, success |-> TRUE, skipped |-> FALSE,
     message |-> "Successfully processed",
     summary |-> IF Truthy(summary) THEN summary ELSE None]

ErrorResponse(status, detail) ==
    [status |-> status, success |-> FALSE, skipped |-> FALSE,
     message |-> detail, summary |-> None]

\* ------------------------------------------------- frontend result dicts
NoResult == [success |-> FALSE, skipped |-> FALSE, error |-> None,
             traceback |-> None, message |-> None]

\* process_single_pdf's result for a detected duplicate.
DuplicateResult ==
    [success |-> TRUE, skipped |-> TRUE, error |-> None, traceback |-> None,
     message |-> "already exists (duplicate)"]

\* The result built by an except clause of the loop or of process_single_pdf.
ExceptionResult(e) ==
    [success |-> FALSE, skipped |-> FALSE, error |-> e,
     traceback |-> "traceback", message |-> None]

\* save_extracted_text_to_backend's own except clause.
BackendErrorResult(e) ==
    [success |-> FALSE, skipped |-> FALSE, error |-> e, traceback |-> None,
     message |-> None]

\* response.json() of a 2xx answer of POST /process-pdf.
JsonResult(response) ==
    [success |-> response.success, skipped |-> response.skipped,
     error |-> None, traceback |-> None, message |-> response.message]

\* ------------------------------------------------- calls of the store
\* SUM(col) over the rows: << >> for NULL (no rows), else <<the sum>>.
RECURSIVE SqlSum(_, _)
SqlSum(recs, col) ==
    IF recs = {} THEN << >>
    ELSE LET r == CHOOSE x \in recs : TRUE
             rest == SqlSum(recs \ {r}, col)
         IN <<r[col] + (IF rest = << >> THEN 0 ELSE rest[1])>>

\* Python's  v or 0  for a fetched SUM.
OrZero(v) == IF v = << >> THEN 0 ELSE v[1]

\* SUM(DISTINCT col) in place of SUM(col).
RECURSIVE SumOfSet(_)
SumOfSet(S) ==
    IF S = {} THEN 0 ELSE LET x == CHOOSE y \in S : TRUE IN x + SumOfSet(S \ {x})

get_database_statistics_distinct(recs) ==
    <<Cardinality(recs), SumOfSet({r.word_count : r \in recs}),
      SumOfSet({r.character_length : r \in recs})>>

\* get_database_statistics -> (total_records, total_words, total_chars).
get_database_statistics(recs) ==
    <<Cardinality(recs), OrZero(SqlSum(recs, "word_count")),
      OrZero(SqlSum(recs, "character_length"))>>

\* A call of a function of app/database.py with what it returned.
DbCall(op, id, ok, found, stats) ==
    [op |-> op, id |-> id, ok |-> ok, found |-> found, stats |-> stats]

NoCall == DbCall("none", 0, FALSE, {}, <<0, 0, 0>>)

\* ------------------------------------------------------- chunk_text
\* The characters of the texts handed to chunk_text.
TextChars == {"a", ".", " ", "\n"}

\* count_tokens: about four characters per token.
count_tokens(text) == Len(text) \div 4

\* text.find(sep) + 1: where sep first occurs in text, 0 when nowhere.
FirstIndex(text, sep) ==
    LET hits == {i \in 1..(Len(text) - Len(sep) + 1) :
                    SubSeq(text, i, i + Len(sep) - 1) = sep}
    IN IF hits = {} THEN 0 ELSE CHOOSE i \in hits : \A j \in hits : i <= j

\* text.split(sep)
RECURSIVE Split(_, _)
Split(text, sep) ==
    LET i == FirstIndex(text, sep)
    IN IF i = 0 THEN <<text>>
       ELSE <<SubSeq(text, 1, i - 1)>>
                \o Split(SubSeq(text, i + Len(sep), Len(text)), sep)

ParagraphBreak == <<"\n", "\n">>
SentenceBreak == <<".", " ">>

\* A sentence loop that joins the sentences whatever max_tokens is.
RECURSIVE SentenceLoopNoBudget(_, _, _, _)
SentenceLoopNoBudget(sentences, chunks, temp_chunk, max_tokens) ==
    IF sentences = << >> THEN [chunks |-> chunks, temp_chunk |-> temp_chunk]
    ELSE SentenceLoopNoBudget(Tail(sentences), chunks,
            IF Len(temp_chunk) > 0
            THEN temp_chunk \o SentenceBreak \o Head(sentences)
            ELSE Head(sentences),
            max_tokens)

\* for sentence in sentences: ... (the loop of chunk_text over the
\* sentences of a paragraph that is over max_tokens).
RECURSIVE SentenceLoop(_, _, _, _)
SentenceLoop(sentences, chunks, temp_chunk, max_tokens) ==
    IF sentences = << >> THEN [chunks |-> chunks, temp_chunk |-> temp_chunk]
    ELSE LET sentence == Head(sentences)
             temp_sentence == IF Len(temp_chunk) > 0
                              THEN temp_chunk \o SentenceBreak \o sentence
                              ELSE sentence
         IN IF count_tokens(temp_sentence) <= max_tokens
            THEN SentenceLoop(Tail(sentences), chunks, temp_sentence, max_tokens)
            ELSE SentenceLoop(Tail(sentences),
                              IF Len(temp_chunk) > 0
                              THEN Append(chunks, temp_chunk) ELSE chunks,
                              sentence, max_tokens)

\* for paragraph in paragraphs: ... (the outer loop of chunk_text).
RECURSIVE ParagraphLoop(_, _, _, _)
ParagraphLoop(paragraphs, chunks, current_chunk, max_tokens) ==
    IF paragraphs = << >>
    THEN [chunks |-> chunks, current_chunk |-> current_chunk]
    ELSE LET paragraph == Head(paragraphs)
             potential_chunk == IF Len(current_chunk) > 0
                                THEN current_chunk \o ParagraphBreak \o paragraph
                                ELSE paragraph
             closed == IF Len(current_chunk) > 0
                       THEN Append(chunks, current_chunk) ELSE chunks
         IN IF count_tokens(potential_chunk) <= max_tokens
            THEN ParagraphLoop(Tail(paragraphs), chunks, potential_chunk, max_tokens)
            ELSE IF count_tokens(paragraph) > max_tokens
            THEN LET inner == SentenceLoop(Split(paragraph, SentenceBreak),
                                           closed, << >>, max_tokens)
                 IN ParagraphLoop(Tail(paragraphs),
                                  IF Len(inner.temp_chunk) > 0
                                  THEN Append(inner.chunks, inner.temp_chunk)
                                  ELSE inner.chunks,
                                  << >>, max_tokens)
            ELSE ParagraphLoop(Tail(paragraphs), closed, paragraph, max_tokens)

\* chunk_text without the append of the last current_chunk after the loop.
chunk_text_last_dropped(text, max_tokens) ==
    IF count_tokens(text) <= max_tokens THEN <<text>>
    ELSE ParagraphLoop(Split(text, ParagraphBreak), << >>, << >>, max_tokens).chunks

\* chunk_text(text, max_tokens) -> the list of chunks.
chunk_text(text, max_tokens) ==
    IF count_tokens(text) <= max_tokens THEN <<text>>
    ELSE LET outer == ParagraphLoop(Split(text, ParagraphBreak), << >>, << >>,
                                    max_tokens)
         IN IF Len(outer.current_chunk) > 0
            THEN Append(outer.chunks, outer.current_chunk)
            ELSE outer.chunks

\* ---------------------------------------------------- summarize_chunk
\* How a call of summarize_chunk goes: no api_key is configured; the
\* request is answered; the request fails (connection, HTTP status, an
\* answer without choices); the request times out after 30 seconds.
ChunkOutcomes == {"no_api_key", "answered", "failed", "timeout"}

\* result["choices"][0]["message"]["content"].strip() of an answer.
LlmAnswers == {<<"s">>, << >>}

\* chunk[:500] + "..." if len(chunk) > 500 else chunk
Truncated(chunk) ==
    IF Len(chunk) > FALLBACK_CHARS
    THEN SubSeq(chunk, 1, FALLBACK_CHARS) \o <<".", ".", ".">>
    ELSE chunk

\* summarize_chunk without its except clause: a failing request raises.
summarize_chunk_uncaught(chunk, outcome, answer) ==
    [raised |-> outcome \in {"failed", "timeout"},
     requested |-> outcome # "no_api_key",
     summary |-> IF outcome = "answered" THEN answer ELSE Truncated(chunk)]

\* summarize_chunk(chunk) -> the summary, and whether a request was made.
summarize_chunk(chunk, outcome, answer) ==
    [raised |-> FALSE,
     requested |-> outcome # "no_api_key",
     summary |-> IF outcome = "answered" THEN answer ELSE Truncated(chunk)]

\* sep.join(parts)
RECURSIVE Join(_, _)
Join(parts, sep) ==
    IF parts = << >> THEN << >>
    ELSE IF Len(parts) = 1 THEN parts[1]
    ELSE parts[1] \o sep \o Join(Tail(parts), sep)

\* A guard that lets whitespace-only text through.
ShortCircuitsEmptyOnly(text) == text = << >>

\* if not text or not text.strip()
ShortCircuits(text) == text = << >> \/ IsBlank(text)

\* What a delete_record that returned True adds to the history: id and
\* md5_hash of the row it was called for, when the row has a hash.
DeletedRows(recs, record_id) ==
    {[id |-> row.id, md5_hash |-> row.md5_hash] :
        row \in {r \in get_record_by_id(recs, record_id) : r.md5_hash # None}}

\* No call of extract_text_from_pdf yet.
NoPdf == [render_ok |-> TRUE, pages |-> << >>]

NoOutcome == [returned |-> FALSE, raised |-> FALSE, text |-> << >>, error |-> << >>]

\* No call of calculate_text_metrics yet.
NotMeasured == [called |-> FALSE, text |-> << >>, result |-> <<0, 0>>]

NotChunked == [called |-> FALSE, text |-> << >>, max_tokens |-> 0, chunks |-> << >>]

Init ==
    /\ records = {}
    /\ seq = 0
    /\ ever = {}
    /\ deleted = {}
    /\ pc = [p \in Procs |-> "idle"]
    /\ req = [p \in Procs |-> NoRequest]
    /\ summ = [p \in Procs |-> None]
    /\ resp = [p \in Procs |-> NoResponse]
    /\ calls = [p \in Procs |-> << >>]
    /\ delSince = [p \in Procs |-> FALSE]
    /\ upc = "idle"
    /\ uid = 0
    /\ utext = None
    /\ uresp = NoResponse
    /\ ucalls = << >>
    /\ bpc = "idle"
    /\ loop = None
    /\ files = << >>
    /\ gen = FALSE
    /\ idx = 0
    /\ spos = 0
    /\ log = << >>
    /\ dupReported = FALSE
    /\ raised = None
    /\ saved = "none"
    /\ file_md5 = None
    /\ file_text = None
    /\ metrics = <<0, 0>>
    /\ result = NoResult
    /\ counts = [successful |-> 0, skipped |-> 0, failed |-> 0]
    /\ results = << >>
    /\ temp_file_path = 0
    /\ tempFiles = {}
    /\ dbop = NoCall
    /\ chunking = NotChunked
    /\ spc = "idle"
    /\ doc_text = << >>
    /\ chunked = FALSE
    /\ doc_chunks = << >>
    /\ chunk_summaries = << >>
    /\ chunk_calls = << >>
    /\ doc_summary = << >>
    /\ measured = NotMeasured
    /\ ocr_pc = "idle"
    /\ ocr_pdf = NoPdf
    /\ ocr_page = 0
    /\ ocr_text = << >>
    /\ ocr_out = NoOutcome
    /\ session_state = [delete_confirmation_id |-> 0, last_selected_record_id |-> 0]
    /\ ui_deleted = {}
    /\ ui_log = << >>

\* ----------------------------------------------------- POST /process-pdf
\* A guard on the text alone: generate_summary is not looked at.
AfterGuardFlagIgnored(request) ==
    IF request.extracted_text # << >> THEN "summarize" ELSE "save"

\* Where process_pdf goes once the duplicate guard has let the request by.
AfterGuard(request) ==
    IF request.generate_summary /\ request.extracted_text # << >>
    THEN "summarize" ELSE "save"

\* process_pdf up to its first suspension point: the duplicate guard.
ProcessPdfCheck(p, request) ==
    /\ pc[p] = "idle"
    /\ req' = [req EXCEPT ![p] = request]
    /\ delSince' = [delSince EXCEPT ![p] = FALSE]
    /\ summ' = [summ EXCEPT ![p] = None]
    /\ IF Truthy(request.md5_hash)
       THEN /\ calls' = [calls EXCEPT ![p] = <<"check">>]
            /\ IF check_duplicate_by_hash(records, request.md5_hash)
               THEN /\ pc' = [pc EXCEPT ![p] = "done"]
                    /\ resp' = [resp EXCEPT ![p] = SkippedResponse]
               ELSE /\ pc' = [pc EXCEPT ![p] = AfterGuard(request)]
                    /\ resp' = [resp EXCEPT ![p] = NoResponse]
       ELSE /\ calls' = [calls EXCEPT ![p] = << >>]
            /\ pc' = [pc EXCEPT ![p] = AfterGuard(request)]
            /\ resp' = [resp EXCEPT ![p] = NoResponse]
    /\ UNCHANGED <<storeVars, updateVars, libVars, batchVars>>

\* summary = await summarize_document(request.extracted_text)
ProcessPdfSummarize(p) ==
    /\ pc[p] = "summarize"
    /\ \E s \in summarize_document(req[p].extracted_text) :
          summ' = [summ EXCEPT ![p] = s]
    /\ calls' = [calls EXCEPT ![p] = Append(@, "summarize")]
    /\ pc' = [pc EXCEPT ![p] = "save"]
    /\ UNCHANGED <<storeVars, req, resp, delSince, updateVars, libVars, batchVars>>

\* save_extracted_text(...) and the response built from its result.
ProcessPdfSave(p) ==
    /\ pc[p] = "save"
    /\ LET r == req[p]
           res == save_extracted_text(records, seq, r.filename, r.extracted_text,
                                      r.word_count, r.character_length,
                                      summ[p], r.md5_hash)
       IN /\ res.seq <= MaxId
          /\ records' = res.records
          /\ seq' = res.seq
          /\ ever' = ever \cup {row.id : row \in res.records}
          /\ UNCHANGED deleted
          /\ resp' = [resp EXCEPT ![p] =
                IF res.ok THEN ProcessedResponse(summ[p])
                ELSE ErrorResponse(500, "Failed to save to database")]
    /\ calls' = [calls EXCEPT ![p] = Append(@, "insert")]
    /\ pc' = [pc EXCEPT ![p] = "done"]
    /\ UNCHANGED <<req, summ, delSince, updateVars, libVars, batchVars>>

\* The response has been sent; the slot is free for the next request.
ProcessPdfReturn(p) ==
    /\ pc[p] = "done"
    /\ pc' = [pc EXCEPT ![p] = "idle"]
    /\ req' = [req EXCEPT ![p] = NoRequest]
    /\ summ' = [summ EXCEPT ![p] = None]
    /\ resp' = [resp EXCEPT ![p] = NoResponse]
    /\ calls' = [calls EXCEPT ![p] = << >>]
    /\ delSince' = [delSince EXCEPT ![p] = FALSE]
    /\ UNCHANGED <<storeVars, updateVars, libVars, batchVars>>

\* ------------------------------------------ PUT /records/{id}/summary
\* The checks without the one for an empty extracted_text.
UpdateSummaryChecksNoTextCheck(recs, record_id, generate) ==
    IF get_record_by_id(recs, record_id) = {}
    THEN ErrorResponse(404, "Record not found")
    ELSE IF ~generate
    THEN ErrorResponse(400, "Generate parameter must be True")
    ELSE NoResponse

\* The checks of update_record_summary (main.py) before it summarizes: the
\* error response it raises, or NoResponse when it goes on.
UpdateSummaryChecks(recs, record_id, generate) ==
    LET found == get_record_by_id(recs, record_id)
    IN IF found = {}
       THEN ErrorResponse(404, "Record not found")
       ELSE IF ~generate
       THEN ErrorResponse(400, "Generate parameter must be True")
       ELSE IF \A r \in found : r.extracted_text = << >>
       THEN ErrorResponse(400, "No extracted text available for summarization")
       ELSE NoResponse

\* update_record_summary (main.py) up to its suspension point.
UpdateSummaryStart(record_id, generate) ==
    /\ upc = "idle"
    /\ uid' = record_id
    /\ ucalls' = <<"get">>
    /\ uresp' = UpdateSummaryChecks(records, record_id, generate)
    /\ IF uresp' # NoResponse
       THEN /\ upc' = "done"
            /\ utext' = None
       ELSE /\ upc' = "summarize"
            /\ utext' = (CHOOSE r \in get_record_by_id(records, record_id) : TRUE).extracted_text
    /\ UNCHANGED <<storeVars, submitVars, libVars, batchVars>>

\* summary = await summarize_document(...); update_record_summary(id, summary)
UpdateSummaryFinish ==
    /\ upc = "summarize"
    /\ \E s \in summarize_document(utext) :
          LET res == db_update_record_summary(records, uid, s)
          IN /\ records' = res.records
             /\ uresp' = IF res.ok
                         THEN [status |-> 200, success |-> TRUE, skipped |-> FALSE,
                               message |-> "Summary updated successfully",
                               summary |-> s]
                         ELSE ErrorResponse(500, "Failed to update summary")
    /\ ucalls' = ucalls \o <<"summarize", "update">>
    /\ upc' = "done"
    /\ UNCHANGED <<seq, ever, deleted, uid, utext, submitVars, libVars, batchVars>>

UpdateSummaryReturn ==
    /\ upc = "done"
    /\ upc' = "idle"
    /\ uid' = 0
    /\ utext' = None
    /\ uresp' = NoResponse
    /\ ucalls' = << >>
    /\ UNCHANGED <<storeVars, submitVars, libVars, batchVars>>

\* ------------------------------------------------------- delete_record
DeleteRecord(record_id) ==
    /\ LET res == delete_record(records, record_id)
       IN /\ res.ok
          /\ records' = res.records
          /\ deleted' = deleted \cup DeletedRows(records, record_id)
          /\ delSince' = [p \in Procs |->
                delSince[p] \/ (/\ pc[p] # "idle"
                                /\ \E r \in get_record_by_id(records, record_id) :
                                      r.md5_hash = req[p].md5_hash)]
    /\ UNCHANGED <<seq, ever, pc, req, summ, resp, calls, updateVars, libVars, batchVars>>

\* The backend serving one process_pdf request at a time, with summary
\* updates and deletions in between its steps.
Next ==
    \/ \E request \in Requests : ProcessPdfCheck("p1", request)
    \/ ProcessPdfSummarize("p1")
    \/ ProcessPdfSave("p1")
    \/ ProcessPdfReturn("p1")
    \/ \E id \in 1..MaxId, generate \in BOOLEAN : UpdateSummaryStart(id, generate)
    \/ UpdateSummaryFinish
    \/ UpdateSummaryReturn
    \/ \E id \in 1..MaxId : DeleteRecord(id)

Spec == Init /\ [][Next]_vars

\* Two process_pdf requests in flight at once, each served once, with
\* deletions in between their steps.
NextRace ==
    \/ \E p \in Procs, request \in Requests : ProcessPdfCheck(p, request)
    \/ \E p \in Procs : ProcessPdfSummarize(p)
    \/ \E p \in Procs : ProcessPdfSave(p)
    \/ \E id \in 1..MaxId : DeleteRecord(id)

SpecRace == Init /\ [][NextRace]_vars

\* ===================================================================
\* The frontend ingestion loops
\* ===================================================================
\* The files of the model: two names with the same bytes, one with others.
InputFiles ==
    {[path |-> <<"docs", "a.pdf">>, content |-> "c1"],
     [path |-> <<"docs", "b.pdf">>, content |-> "c1"],
     [path |-> <<"docs", "c.pdf">>, content |-> "c2"]}

\* All sequences over S of length at most n.
SeqUpTo(S, n) == UNION {[1..k -> S] : k \in 0..n}

\* pdf_file.split("/")[-1].split("\\")[-1] and uploaded_file.name.
basename(path) == path[Len(path)]

\* calculate_md5_hash: the digest of a file's bytes.
calculate_md5_hash(content) == IF content = "c1" THEN "H1" ELSE "H2"

\* extract_text_from_pdf on a readable file: what OCR reads from it.
extract_text_from_pdf(content) ==
    IF content = "c1" THEN <<"a", " ", "b">> ELSE <<"b">>

\* The loops of frontend/data_processing.py (built on process_single_pdf)
\* and the loops of frontend/streamlit_app.py (the same steps inlined).
DataProcessingLoops == {"process_pdf_batch", "process_uploaded_files"}
StreamlitLoops == {"streamlit_process_pdf_batch", "streamlit_process_uploaded_files"}
Loops == DataProcessingLoops \cup StreamlitLoops

\* The order in which process_single_pdf calls check and extract, swapped.
PipelineStagesExtractFirst(l) ==
    IF l \in {"process_pdf_batch", "streamlit_process_pdf_batch"}
    THEN <<"hash", "extract", "check", "metrics", "save", "tally">>
    ELSE <<"temp", "hash", "extract", "check", "metrics", "save", "tally", "cleanup">>

\* The steps one iteration of each loop goes through, in program order.
PipelineStages(l) ==
    CASE l = "process_pdf_batch" ->
            <<"hash", "check", "extract", "metrics", "save", "tally">>
      [] l = "process_uploaded_files" ->
            <<"temp", "hash", "check", "extract", "metrics", "save", "tally",
              "cleanup">>
      [] l = "streamlit_process_pdf_batch" ->
            <<"hash", "extract", "metrics", "save", "tally">>
      [] l = "streamlit_process_uploaded_files" ->
            <<"temp", "hash", "extract", "metrics", "save", "tally", "cleanup">>

Stage == IF bpc = "running" /\ idx <= Len(files)
         THEN PipelineStages(loop)[spos] ELSE "none"

StagePos(l, st) == CHOOSE i \in DOMAIN PipelineStages(l) : PipelineStages(l)[i] = st

\* A try/except that lets the exceptions of extraction through.
CatchesAllButExtract(l, st) == st # "extract"

\* Is an exception raised in stage st of loop l caught inside the
\* iteration (by process_single_pdf's or by the loop's except clause).
Catches(l, st) == TRUE

\* A tally whose skipped branch falls through to the successful one.
TallyFallThrough(c, res) ==
    IF res.success
    THEN [c EXCEPT !.skipped = IF res.skipped THEN @ + 1 ELSE @,
                   !.successful = @ + 1]
    ELSE [c EXCEPT !.failed = @ + 1]

\* The if/else on result.get("success") and result.get("skipped").
Tally(c, res) ==
    IF res.success
    THEN IF res.skipped
         THEN [c EXCEPT !.skipped = @ + 1]
         ELSE [c EXCEPT !.successful = @ + 1]
    ELSE [c EXCEPT !.failed = @ + 1]

\* save_extracted_text when sqlite3 raises inside its try block whatever
\* the row (a locked or unwritable database): the except clause of
\* save_extracted_text returns False.
save_extracted_text_store_error(recs, s) ==
    [ok |-> FALSE, records |-> recs, seq |-> s]

\* A process_pdf that answers 200 without looking at what
\* save_extracted_text returned.
process_pdf_success_unchecked(recs, s, request, summary_result, lookup_ok, store_ok) ==
    IF Truthy(request.md5_hash) /\ duplicate_lookup(recs, request.md5_hash, lookup_ok)
    THEN [records |-> recs, seq |-> s, response |-> SkippedResponse,
          saved |-> "none"]
    ELSE LET summary == IF AfterGuard(request) = "summarize"
                        THEN summary_result ELSE None
             res == IF store_ok
                    THEN save_extracted_text(recs, s, request.filename,
                            request.extracted_text, request.word_count,
                            request.character_length, summary, request.md5_hash)
                    ELSE save_extracted_text_store_error(recs, s)
         IN [records |-> res.records, seq |-> res.seq,
             response |-> ProcessedResponse(summary),
             saved |-> IF res.ok THEN "ok" ELSE "failed"]

\* process_pdf served in one piece: the request of a client that waits for
\* the answer, with summary_result what summarize_document returns and
\* lookup_ok whether the store answers the duplicate lookup, and store_ok
\* whether the store takes the INSERT.
process_pdf(recs, s, request, summary_result, lookup_ok, store_ok) ==
    IF Truthy(request.md5_hash) /\ duplicate_lookup(recs, request.md5_hash, lookup_ok)
    THEN [records |-> recs, seq |-> s, response |-> SkippedResponse,
          saved |-> "none"]
    ELSE LET summary == IF AfterGuard(request) = "summarize"
                        THEN summary_result ELSE None
             res == IF store_ok
                    THEN save_extracted_text(recs, s, request.filename,
                            request.extracted_text, request.word_count,
                            request.character_length, summary, request.md5_hash)
                    ELSE save_extracted_text_store_error(recs, s)
         IN [records |-> res.records, seq |-> res.seq,
             response |-> IF res.ok THEN ProcessedResponse(summary)
                          ELSE ErrorResponse(500, "Failed to save to database"),
             saved |-> IF res.ok THEN "ok" ELSE "failed"]

\* The per-file locals at the start of an iteration.
FreshLocals ==
    /\ spos' = 1
    /\ log' = << >>
    /\ dupReported' = FALSE
    /\ raised' = None
    /\ saved' = "none"
    /\ file_md5' = None
    /\ file_text' = None
    /\ metrics' = <<0, 0>>
    /\ result' = NoResult
    /\ temp_file_path' = 0

\* A call of one of the four loops.
BatchStart(l, fs, g) ==
    /\ bpc = "idle"
    /\ bpc' = "running"
    /\ loop' = l
    /\ files' = fs
    /\ gen' = g
    /\ idx' = 1
    /\ counts' = [successful |-> 0, skipped |-> 0, failed |-> 0]
    /\ results' = << >>
    /\ tempFiles' = {}
    /\ FreshLocals
    /\ UNCHANGED <<storeVars, submitVars, updateVars, libVars>>

\* Stage st raised e: the except clause builds the failure result, or the
\* exception leaves the loop.
Raise(st, e) ==
    /\ raised' = st
    /\ IF Catches(loop, st)
       THEN /\ result' = ExceptionResult(e)
            /\ spos' = StagePos(loop, "tally")
            /\ bpc' = bpc
       ELSE /\ result' = result
            /\ spos' = spos
            /\ bpc' = "aborted"

\* The staging copy of an upload: tempfile.NamedTemporaryFile(delete=False)
\* and temp_file.write(uploaded_file.getbuffer()).
StageTemp ==
    /\ Stage = "temp"
    /\ \/ /\ tempFiles' = tempFiles \cup {idx}
          /\ temp_file_path' = idx
          /\ spos' = spos + 1
          /\ UNCHANGED <<bpc, raised, result>>
       \/ \* the file could not be created
          /\ Raise("temp", "OSError")
          /\ UNCHANGED <<tempFiles, temp_file_path>>
       \/ \* the file was created and the write raised
          /\ tempFiles' = tempFiles \cup {idx}
          /\ Raise("temp", "OSError")
          /\ UNCHANGED temp_file_path
    /\ UNCHANGED <<storeVars, submitVars, updateVars, libVars, loop, files, gen, idx, log,
                   dupReported, saved, file_md5, file_text, metrics, counts, results>>

\* md5_hash = calculate_md5_hash(pdf_path)
StageHash ==
    /\ Stage = "hash"
    /\ log' = Append(log, "hash")
    /\ \/ /\ file_md5' = calculate_md5_hash(files[idx].content)
          /\ spos' = spos + 1
          /\ UNCHANGED <<bpc, raised, result>>
       \/ /\ Raise("hash", "IOError")
          /\ UNCHANGED file_md5
    /\ UNCHANGED <<storeVars, submitVars, updateVars, libVars, loop, files, gen, idx,
                   dupReported, saved, file_text, metrics, counts, results,
                   temp_file_path, tempFiles>>

\* if check_duplicate_hash(md5_hash): the backend's answer, or False when
\* the lookup fails.
StageCheck ==
    /\ Stage = "check"
    /\ log' = Append(log, "check")
    /\ \E answered \in BOOLEAN :
          IF check_duplicate_hash(records, file_md5, answered)
          THEN /\ dupReported' = TRUE
               /\ result' = DuplicateResult
               /\ spos' = StagePos(loop, "tally")
          ELSE /\ dupReported' = FALSE
               /\ result' = result
               /\ spos' = spos + 1
    /\ UNCHANGED <<storeVars, submitVars, updateVars, libVars, bpc, loop, files, gen, idx,
                   raised, saved, file_md5, file_text, metrics, counts, results,
                   temp_file_path, tempFiles>>

\* extracted_text = extract_text_from_pdf(pdf_path)
StageExtract ==
    /\ Stage = "extract"
    /\ log' = Append(log, "extract")
    /\ \/ /\ file_text' = extract_text_from_pdf(files[idx].content)
          /\ spos' = spos + 1
          /\ UNCHANGED <<bpc, raised, result>>
       \/ /\ Raise("extract", "OCR processing failed")
          /\ UNCHANGED file_text
    /\ UNCHANGED <<storeVars, submitVars, updateVars, libVars, loop, files, gen, idx,
                   dupReported, saved, file_md5, metrics, counts, results,
                   temp_file_path, tempFiles>>

\* word_count, character_length = calculate_text_metrics(extracted_text)
StageMetrics ==
    /\ Stage = "metrics"
    /\ log' = Append(log, "metrics")
    /\ metrics' = calculate_text_metrics(file_text)
    /\ spos' = spos + 1
    /\ UNCHANGED <<storeVars, submitVars, updateVars, libVars, bpc, loop, files, gen, idx,
                   dupReported, raised, saved, file_md5, file_text, result, counts,
                   results, temp_file_path, tempFiles>>

\* The request save_extracted_text_to_backend posts for the current file.
SaveRequest ==
    [filename |-> basename(files[idx].path), extracted_text |-> file_text,
     word_count |-> metrics[1], character_length |-> metrics[2],
     generate_summary |-> gen, md5_hash |-> file_md5]

\* result = save_extracted_text_to_backend(...): the backend is not
\* reached, or it serves the request and its answer arrives (200, or 500
\* when the save failed), or it serves the request and the answer is lost
\* (timeout).
StageSave ==
    /\ Stage = "save"
    /\ log' = Append(log, "save")
    /\ spos' = spos + 1
    /\ \/ /\ result' = BackendErrorResult("ConnectionError")
          /\ raised' = "save"
          /\ UNCHANGED <<storeVars, dupReported, saved>>
       \/ \E s \in summarize_document(file_text), arrives \in BOOLEAN,
             lookup_ok \in BOOLEAN, store_ok \in BOOLEAN :
             LET out == process_pdf(records, seq, SaveRequest, s, lookup_ok, store_ok)
             IN /\ out.seq <= MaxId
                /\ records' = out.records
                /\ seq' = out.seq
                /\ ever' = ever \cup {row.id : row \in out.records}
                /\ UNCHANGED deleted
                /\ saved' = out.saved
                /\ IF arrives /\ out.response.status = 200
                   THEN /\ result' = JsonResult(out.response)
                        /\ raised' = raised
                   ELSE /\ result' = BackendErrorResult(
                                         IF arrives THEN "500 Server Error"
                                         ELSE "ReadTimeout")
                        /\ raised' = "save"
                /\ dupReported' =
                      IF loop \in StreamlitLoops
                      THEN arrives /\ out.response.skipped
                      ELSE dupReported
    /\ UNCHANGED <<submitVars, updateVars, libVars, bpc, loop, files, gen, idx,
                   file_md5, file_text, metrics, counts, results,
                   temp_file_path, tempFiles>>

\* The step to the next file of the batch.
NextFile ==
    /\ idx' = idx + 1
    /\ FreshLocals

\* The counters and the per-file result list (the loops of streamlit_app.py
\* keep the counters only).
TallyFile ==
    /\ Stage = "tally"
    /\ counts' = Tally(counts, result)
    /\ results' = IF loop \in DataProcessingLoops
                  THEN Append(results, [filename |-> basename(files[idx].path),
                                        result |-> result])
                  ELSE results
    /\ IF spos < Len(PipelineStages(loop))
       THEN /\ spos' = spos + 1
            /\ UNCHANGED <<idx, log, dupReported, raised, saved, file_md5,
                           file_text, metrics, result, temp_file_path>>
       ELSE NextFile
    /\ UNCHANGED <<storeVars, submitVars, updateVars, libVars, bpc, loop, files, gen,
                   tempFiles>>

\* finally: cleanup_temp_file(temp_file_path); a failing os.unlink is only
\* logged.
StageCleanup ==
    /\ Stage = "cleanup"
    /\ IF temp_file_path # 0
       THEN \/ tempFiles' = tempFiles \ {temp_file_path}
            \/ tempFiles' = tempFiles
       ELSE tempFiles' = tempFiles
    /\ NextFile
    /\ UNCHANGED <<storeVars, submitVars, updateVars, libVars, bpc, loop, files, gen,
                   counts, results>>

\* The loop is over: the counts and the result list are returned.
BatchReturn ==
    /\ bpc = "running"
    /\ idx > Len(files)
    /\ bpc' = "returned"
    /\ UNCHANGED <<storeVars, submitVars, updateVars, libVars, loop, files, gen, idx, spos,
                   log, dupReported, raised, saved, file_md5, file_text, metrics,
                   result, counts, results, temp_file_path, tempFiles>>

NextBatch ==
    \/ \E l \in Loops, fs \in SeqUpTo(InputFiles, MaxFiles), g \in BOOLEAN :
          BatchStart(l, fs, g)
    \/ StageTemp
    \/ StageHash
    \/ StageCheck
    \/ StageExtract
    \/ StageMetrics
    \/ StageSave
    \/ TallyFile
    \/ StageCleanup
    \/ BatchReturn

SpecBatch == Init /\ [][NextBatch]_vars

\* ===================================================================
\* The record store called directly
\* ===================================================================
\* The summaries the callers of save_extracted_text pass.
SaveSummaries == {None, "llm"}

\* save_extracted_text(filename, extracted_text, word_count,
\* character_length, summary, md5_hash)
DbSave(request, summary) ==
    /\ LET res == save_extracted_text(records, seq, request.filename,
                      request.extracted_text, request.word_count,
                      request.character_length, summary, request.md5_hash)
       IN /\ res.seq <= MaxId
          /\ records' = res.records
          /\ seq' = res.seq
          /\ ever' = ever \cup {row.id : row \in res.records}
          /\ UNCHANGED deleted
          /\ dbop' = DbCall("save", res.seq, res.ok, {}, <<0, 0, 0>>)
    /\ UNCHANGED <<submitVars, updateVars, batchVars, textVars, auxVars>>

\* update_record_summary(record_id, summary)
DbUpdateSummary(record_id, summary) ==
    /\ LET res == db_update_record_summary(records, record_id, summary)
       IN /\ records' = res.records
          /\ dbop' = DbCall("update", record_id, res.ok, {}, <<0, 0, 0>>)
    /\ UNCHANGED <<seq, ever, deleted, submitVars, updateVars, batchVars, textVars, auxVars>>

\* delete_record(record_id)
DbDelete(record_id) ==
    /\ LET res == delete_record(records, record_id)
       IN /\ records' = res.records
          /\ deleted' = IF res.ok THEN deleted \cup DeletedRows(records, record_id)
                        ELSE deleted
          /\ dbop' = DbCall("delete", record_id, res.ok, {}, <<0, 0, 0>>)
    /\ UNCHANGED <<seq, ever, submitVars, updateVars, batchVars, textVars, auxVars>>

\* get_record_by_id(record_id)
DbGet(record_id) ==
    /\ LET found == get_record_by_id(records, record_id)
       IN dbop' = DbCall("get", record_id, found # {}, found, <<0, 0, 0>>)
    /\ UNCHANGED <<storeVars, submitVars, updateVars, batchVars, textVars, auxVars>>

\* get_database_statistics()
DbStats ==
    /\ dbop' = DbCall("stats", 0, TRUE, {}, get_database_statistics(records))
    /\ UNCHANGED <<storeVars, submitVars, updateVars, batchVars, textVars, auxVars>>

NextStore ==
    \/ \E request \in Requests, summary \in SaveSummaries : DbSave(request, summary)
    \/ \E id \in 1..MaxId, summary \in {"llm", ""} : DbUpdateSummary(id, summary)
    \/ \E id \in 1..MaxId : DbDelete(id)
    \/ \E id \in 1..MaxId : DbGet(id)
    \/ DbStats

SpecStore == Init /\ [][NextStore]_vars

\* ===================================================================
\* chunk_text called directly
\* ===================================================================
\* chunks = chunk_text(text, max_tokens)
ChunkText(text, max_tokens) ==
    /\ ~chunking.called
    /\ chunking' = [called |-> TRUE, text |-> text, max_tokens |-> max_tokens,
                    chunks |-> chunk_text(text, max_tokens)]
    /\ UNCHANGED <<storeVars, submitVars, updateVars, batchVars, dbVars, auxVars, docVars>>

\* Texts longer than MaxLen in which a paragraph that is divided into
\* sentences stands before or after a short paragraph.
LongTexts ==
    {<<"a", "a", "a", "a", "a", ".", " ", "a", "\n", "\n", "a">>,
     <<"a", "a", "a", "a", ".", " ", "a", "a", "a", "a", "\n", "\n", "a">>,
     <<"a", "\n", "\n", "a", "a", "a", "a", ".", " ", "a", "a", "a", "a">>,
     <<"a", "a", "a", "a", ".", " ", "a", "a", "a", "a", ".", " ", "a", "\n", "\n", "a">>}

\* The texts handed to chunk_text.
ChunkerTexts == SeqUpTo(TextChars, MaxLen) \cup LongTexts

\* One call, with any text and any max_tokens of the model.
NextChunk ==
    /\ ~chunking.called
    /\ \E text \in ChunkerTexts, max_tokens \in 0..MaxBudget :
          ChunkText(text, max_tokens)

SpecChunk == Init /\ [][NextChunk]_vars

\* ===================================================================
\* summarize_document called directly
\* ===================================================================
\* The documents handed to summarize_document.
SummarizerTexts ==
    SeqUpTo({"a", "\n"}, MaxDocLen)
        \cup {<<" ">>, <<" ", "\n", "\t">>,
              <<".", " ", ".", " ", ".", " ", ".", " ">>,
              <<"a", "a", "a", "a", ".", " ", "a", "a", "a", "a">>}

\* A test that asks for a final summary whatever the length.
NeedsFinalSummaryAlways(combined_summary) == TRUE

\* if count_tokens(combined_summary) > MAX_TOKENS_PER_CHUNK
NeedsFinalSummary(combined_summary) ==
    count_tokens(combined_summary) > MAX_TOKENS_PER_CHUNK

\* A join that puts the parts in reverse order.
RECURSIVE JoinReversed(_, _)
JoinReversed(parts, sep) ==
    IF parts = << >> THEN << >>
    ELSE IF Len(parts) = 1 THEN parts[1]
    ELSE JoinReversed(Tail(parts), sep) \o sep \o parts[1]

\* The summaries joined last chunk first.
JoinSummariesReversed(summaries) == JoinReversed(summaries, ParagraphBreak)

\* "\n\n".join(chunk_summaries)
JoinSummaries(summaries) == Join(summaries, ParagraphBreak)

\* The entry of chunk_calls for one call of summarize_chunk.
ChunkCall(chunk, outcome, res) ==
    [chunk |-> chunk, outcome |-> outcome, requested |-> res.requested,
     summary |-> res.summary]

\* summarize_document(text) up to its first await: the guard, the token
\* count and chunk_text.
SummarizeDocumentStart(text) ==
    /\ spc = "idle"
    /\ doc_text' = text
    /\ chunk_summaries' = << >>
    /\ chunk_calls' = << >>
    /\ IF ShortCircuits(text)
       THEN /\ spc' = "done"
            /\ doc_summary' = << >>
            /\ UNCHANGED <<chunked, doc_chunks>>
       ELSE IF count_tokens(text) <= MAX_TOKENS_PER_CHUNK
       THEN /\ spc' = "direct"
            /\ UNCHANGED <<chunked, doc_chunks, doc_summary>>
       ELSE /\ chunked' = TRUE
            /\ doc_chunks' = chunk_text(text, MAX_TOKENS_PER_CHUNK)
            /\ IF doc_chunks' = << >>
               THEN spc' = "done" /\ doc_summary' = << >>
               ELSE spc' = "chunks" /\ UNCHANGED doc_summary
    /\ UNCHANGED <<storeVars, submitVars, updateVars, batchVars, dbVars, auxVars, chunking>>

\* return await summarize_chunk(text)
SummarizeDirect(outcome, answer) ==
    /\ spc = "direct"
    /\ LET res == summarize_chunk(doc_text, outcome, answer)
       IN /\ chunk_calls' = Append(chunk_calls, ChunkCall(doc_text, outcome, res))
          /\ IF res.raised
             THEN spc' = "raised" /\ UNCHANGED doc_summary
             ELSE spc' = "done" /\ doc_summary' = res.summary
    /\ UNCHANGED <<storeVars, submitVars, updateVars, batchVars, dbVars, auxVars, chunking,
                   doc_text, chunked, doc_chunks, chunk_summaries>>

\* summary = await summarize_chunk(chunk); chunk_summaries.append(summary)
\* and, after the last chunk, the join and the test for a final summary.
SummarizeNextChunk(outcome, answer) ==
    /\ spc = "chunks"
    /\ LET chunk == doc_chunks[Len(chunk_summaries) + 1]
           res == summarize_chunk(chunk, outcome, answer)
           summaries == Append(chunk_summaries, res.summary)
           combined_summary == JoinSummaries(summaries)
       IN /\ chunk_calls' = Append(chunk_calls, ChunkCall(chunk, outcome, res))
          /\ IF res.raised
             THEN spc' = "raised" /\ UNCHANGED <<chunk_summaries, doc_summary>>
             ELSE /\ chunk_summaries' = summaries
                  /\ IF Len(summaries) < Len(doc_chunks)
                     THEN spc' = "chunks" /\ UNCHANGED doc_summary
                     ELSE IF NeedsFinalSummary(combined_summary)
                     THEN spc' = "final" /\ UNCHANGED doc_summary
                     ELSE spc' = "done" /\ doc_summary' = combined_summary
    /\ UNCHANGED <<storeVars, submitVars, updateVars, batchVars, dbVars, auxVars, chunking,
                   doc_text, chunked, doc_chunks>>

\* final_summary = await summarize_chunk(combined_summary)
SummarizeFinal(outcome, answer) ==
    /\ spc = "final"
    /\ LET combined_summary == JoinSummaries(chunk_summaries)
           res == summarize_chunk(combined_summary, outcome, answer)
       IN /\ chunk_calls' = Append(chunk_calls,
                                   ChunkCall(combined_summary, outcome, res))
          /\ IF res.raised
             THEN spc' = "raised" /\ UNCHANGED doc_summary
             ELSE spc' = "done" /\ doc_summary' = res.summary
    /\ UNCHANGED <<storeVars, submitVars, updateVars, batchVars, dbVars, auxVars, chunking,
                   doc_text, chunked, doc_chunks, chunk_summaries>>

\* One call of summarize_document, with every way its calls of
\* summarize_chunk can go.
NextSummarize ==
    \/ /\ spc = "idle"
       /\ \E text \in SummarizerTexts : SummarizeDocumentStart(text)
    \/ \E outcome \in ChunkOutcomes, answer \in LlmAnswers :
          SummarizeDirect(outcome, answer)
    \/ \E outcome \in ChunkOutcomes, answer \in LlmAnswers :
          SummarizeNextChunk(outcome, answer)
    \/ \E outcome \in ChunkOutcomes, answer \in LlmAnswers :
          SummarizeFinal(outcome, answer)

SpecSummarize == Init /\ [][NextSummarize]_vars

\* ===================================================================
\* The text metrics called directly (shared/pdf_processor.py)
\* ===================================================================
\* The characters of the texts measured: word characters, a hyphen, a full
\* stop and whitespace.
MetricChars == {"a", "1", "_", "-", ".", " ", "\n"}

\* The arguments of the calls: None and every text up to MaxTextLen.
MetricTexts == {NullText} \cup SeqUpTo(MetricChars, MaxTextLen)

\* word_count, character_length = calculate_text_metrics(text)
CalculateTextMetrics(text) ==
    /\ measured' = [called |-> TRUE, text |-> text,
                    result |-> calculate_text_metrics(text)]
    /\ UNCHANGED <<storeVars, submitVars, updateVars, batchVars, dbVars, textVars,
                   extractVars, uiVars>>

NextMetrics ==
    /\ ~measured.called
    /\ \E text \in MetricTexts : CalculateTextMetrics(text)

SpecMetrics == Init /\ [][NextMetrics]_vars

\* ===================================================================
\* The text extractor called directly (shared/pdf_processor.py)
\* ===================================================================
\* What pytesseract reads from a page (a text is a sequence of characters).
PageTexts == {<< >>, <<"a">>, <<"b">>, <<" ", "a", "\n">>}

\* A page of a PDF: whether OCR of its image succeeds, and the text read.
Pages == [ok : {TRUE}, text : PageTexts] \cup {[ok |-> FALSE, text |-> << >>]}

\* The PDFs: whether pdf2image renders them, and their pages.
Pdfs == [render_ok : BOOLEAN, pages : SeqUpTo(Pages, MaxPages)]

\* The line f"--- Page {n} ---", held as one element of the text.
PageMarker(n) == "--- Page " \o ToString(n) \o " ---"

\* A block whose page number is the index of enumerate(images) itself.
page_block_from_zero(i, page_text) ==
    <<"\n", PageMarker(i), "\n">> \o page_text \o <<"\n">>

\* f"\n--- Page {i + 1} ---\n{page_text}\n"
page_block(i, page_text) ==
    <<"\n", PageMarker(i + 1), "\n">> \o page_text \o <<"\n">>

\* str.lstrip() and str.strip().
RECURSIVE lstrip(_)
lstrip(text) ==
    IF text # << >> /\ Head(text) \in Whitespace THEN lstrip(Tail(text)) ELSE text

RECURSIVE rstrip(_)
rstrip(text) ==
    IF text # << >> /\ text[Len(text)] \in Whitespace
    THEN rstrip(SubSeq(text, 1, Len(text) - 1)) ELSE text

strip(text) == rstrip(lstrip(text))

\* An except clause that gives back the text of the pages read so far.
extraction_failed_partial(extracted_text, cause) ==
    [returned |-> TRUE, raised |-> FALSE, text |-> strip(extracted_text),
     error |-> << >>]

\* except Exception as e: raise Exception(f"OCR processing failed: {str(e)}")
extraction_failed(extracted_text, cause) ==
    [returned |-> FALSE, raised |-> TRUE, text |-> << >>,
     error |-> <<"OCR processing failed: ", cause>>]

\* images = pdf2image.convert_from_path(pdf_path, ...); extracted_text = ""
ExtractConvert(pdf) ==
    /\ ocr_pc = "idle"
    /\ ocr_pdf' = pdf
    /\ ocr_page' = 0
    /\ ocr_text' = << >>
    /\ IF pdf.render_ok
       THEN ocr_pc' = "pages" /\ UNCHANGED ocr_out
       ELSE ocr_pc' = "done" /\ ocr_out' = extraction_failed(<< >>, "render")
    /\ UNCHANGED <<storeVars, submitVars, updateVars, batchVars, dbVars, textVars,
                   metricVars, uiVars>>

\* page_text = pytesseract.image_to_string(image, lang="eng");
\* extracted_text += f"\n--- Page {i + 1} ---\n{page_text}\n"
ExtractPage ==
    /\ ocr_pc = "pages"
    /\ ocr_page < Len(ocr_pdf.pages)
    /\ LET image == ocr_pdf.pages[ocr_page + 1]
       IN IF image.ok
          THEN /\ ocr_text' = ocr_text \o page_block(ocr_page, image.text)
               /\ ocr_page' = ocr_page + 1
               /\ UNCHANGED <<ocr_pc, ocr_out>>
          ELSE /\ ocr_pc' = "done"
               /\ ocr_out' = extraction_failed(ocr_text, "tesseract")
               /\ UNCHANGED <<ocr_page, ocr_text>>
    /\ UNCHANGED <<storeVars, submitVars, updateVars, batchVars, dbVars, textVars,
                   metricVars, uiVars, ocr_pdf>>

\* return extracted_text.strip()
ExtractReturn ==
    /\ ocr_pc = "pages"
    /\ ocr_page = Len(ocr_pdf.pages)
    /\ ocr_pc' = "done"
    /\ ocr_out' = [returned |-> TRUE, raised |-> FALSE, text |-> strip(ocr_text),
                   error |-> << >>]
    /\ UNCHANGED <<storeVars, submitVars, updateVars, batchVars, dbVars, textVars,
                   metricVars, uiVars, ocr_pdf, ocr_page, ocr_text>>

\* One call of extract_text_from_pdf, on any PDF of the model.
NextExtract ==
    \/ /\ ocr_pc = "idle"
       /\ \E pdf \in Pdfs : ExtractConvert(pdf)
    \/ ExtractPage
    \/ ExtractReturn

SpecExtract == Init /\ [][NextExtract]_vars

\* ===================================================================
\* The delete button of the database view
\* (frontend/state_manager.py, frontend/pages/2_View_Database.py)
\* ===================================================================
\* A reset that records the new selection and keeps the confirmation.
reset_keeps_confirmation(state, current_record_id) ==
    IF state.last_selected_record_id # current_record_id
    THEN [state EXCEPT !.last_selected_record_id = current_record_id]
    ELSE state

\* reset_delete_confirmation_on_selection_change(session_state,
\* current_record_id)
reset_delete_confirmation_on_selection_change(state, current_record_id) ==
    IF state.last_selected_record_id # current_record_id
    THEN [delete_confirmation_id |-> 0, last_selected_record_id |-> current_record_id]
    ELSE state

\* is_in_confirmation_mode(session_state, current_record_id)
is_in_confirmation_mode(state, current_record_id) ==
    state.delete_confirmation_id = current_record_id

\* set_confirmation_mode(session_state, record_id)
set_confirmation_mode(state, record_id) ==
    [state EXCEPT !.delete_confirmation_id = record_id]

\* clear_delete_state(session_state)
clear_delete_state(state) ==
    [delete_confirmation_id |-> 0, last_selected_record_id |-> 0]

\* The entry of ui_log for one script run.
ScriptRun(record_id, delete_btn, request, success) ==
    [record_id |-> record_id, delete_btn |-> delete_btn, request |-> request,
     success |-> success]

\* A script run in which a row of the table is selected:
\* render_delete_button(selected_record), with the button clicked or not
\* and, when it sends the delete request, the request succeeding or not.
RenderDeleteButton(current_record_id, delete_btn, success) ==
    /\ Len(ui_log) < MaxRuns
    /\ current_record_id \notin ui_deleted
    /\ LET state == reset_delete_confirmation_on_selection_change(
                        session_state, current_record_id)
           in_confirmation_mode == is_in_confirmation_mode(state, current_record_id)
       IN IF ~delete_btn
          THEN /\ session_state' = state
               /\ ui_log' = Append(ui_log, ScriptRun(current_record_id, FALSE, FALSE, FALSE))
               /\ UNCHANGED ui_deleted
          ELSE IF ~in_confirmation_mode
          THEN /\ session_state' = set_confirmation_mode(state, current_record_id)
               /\ ui_log' = Append(ui_log, ScriptRun(current_record_id, TRUE, FALSE, FALSE))
               /\ UNCHANGED ui_deleted
          ELSE /\ ui_log' = Append(ui_log, ScriptRun(current_record_id, TRUE, TRUE, success))
               /\ IF success
                  THEN /\ session_state' = clear_delete_state(state)
                       /\ ui_deleted' = ui_deleted \cup {current_record_id}
                  ELSE /\ session_state' = state
                       /\ UNCHANGED ui_deleted
    /\ UNCHANGED <<storeVars, submitVars, updateVars, batchVars, dbVars, textVars,
                   metricVars, extractVars>>

\* A script run in which no row is selected (or no record is listed):
\* render_record_details is not called.
RenderWithoutSelection ==
    /\ Len(ui_log) < MaxRuns
    /\ ui_log' = Append(ui_log, ScriptRun(0, FALSE, FALSE, FALSE))
    /\ UNCHANGED <<storeVars, submitVars, updateVars, batchVars, dbVars, textVars,
                   metricVars, extractVars, session_state, ui_deleted>>

NextDeleteUi ==
    \/ \E current_record_id \in 1..MaxId, delete_btn \in BOOLEAN, success \in BOOLEAN :
          RenderDeleteButton(current_record_id, delete_btn, success)
    \/ RenderWithoutSelection

SpecDeleteUi == Init /\ [][NextDeleteUi]_vars

\* ===================================================================
\* Properties of the ingestion loops
\* ===================================================================
Called(st) == \E i \in 1..Len(log) : log[i] = st

CountSum == counts.successful + counts.skipped + counts.failed

\* C1 (as claimed): on every ingestion path, a file that the duplicate
\* check reported as already stored has had no OCR call and its result is
\* success, skipped.
C1_DuplicateSkipsOcr ==
    (Stage = "tally" /\ dupReported) =>
        (~Called("extract") /\ result.success /\ result.skipped)

\* C4: the counts of a batch add up to the number of files handled so
\* far, and to N when the batch returns; the result list of
\* process_pdf_batch and process_uploaded_files then has N entries, the
\* i-th one for the i-th input file.
C4_BatchAccounting ==
    bpc \in {"running", "returned"} =>
        /\ CountSum = (IF Stage \in {"cleanup", "none"} /\ idx <= Len(files)
                       THEN idx ELSE idx - 1)
        /\ bpc = "returned" => CountSum = Len(files)
        /\ loop \in DataProcessingLoops =>
              /\ Len(results) = CountSum
              /\ \A i \in 1..Len(results) :
                    results[i].filename = basename(files[i].path)

\* C4 witness: an upload batch of two files returned with one failed and
\* one skipped file.
C4_Witness ==
    /\ bpc = "returned"
    /\ loop = "process_uploaded_files"
    /\ Len(files) = 2
    /\ counts = [successful |-> 0, skipped |-> 1, failed |-> 1]
    /\ results[2].result.skipped

\* C5 (as claimed): an exception at any stage of a file, the persistence
\* call included, gives the result success=false with error and
\* traceback, and the batch goes on to return a result for every file.
C5_ExceptionIsFailureWithTraceback ==
    /\ bpc # "aborted"
    /\ (loop \in DataProcessingLoops /\ Stage = "tally" /\ raised # None) =>
          (/\ ~result.success
           /\ result.error # None
           /\ result.traceback # None)
    /\ (loop \in DataProcessingLoops /\ bpc = "returned") =>
          Len(results) = Len(files)

\* C5 (amended): as above, but the result carries a traceback exactly when
\* the exception was not raised inside the persistence call.
C5_ExceptionIsFailure ==
    /\ bpc # "aborted"
    /\ (loop \in DataProcessingLoops /\ Stage = "tally" /\ raised # None) =>
          (/\ ~result.success
           /\ result.error # None
           /\ (result.traceback # None <=> raised # "save"))
    /\ (loop \in DataProcessingLoops /\ bpc = "returned") =>
          Len(results) = Len(files)

\* C5 witness: extraction raised for the first file of a batch, the second
\* file was processed and the batch returned.
C5_Witness ==
    /\ bpc = "returned"
    /\ loop = "process_pdf_batch"
    /\ Len(results) = 2
    /\ results[1].result.traceback # None
    /\ results[1].result.error = "OCR processing failed"
    /\ results[2].result.success /\ ~results[2].result.skipped

SinglePdfOrder == <<"hash", "check", "extract", "metrics", "save">>

\* C6: process_single_pdf calls fingerprint, duplicate check, extract,
\* metrics, persist in this order and each at most once; a file that is
\* no duplicate and raises nowhere goes through all five; persist is
\* called only after a not-duplicate answer and successful extraction
\* and metrics.
C6_StageOrder ==
    (loop \in DataProcessingLoops /\ bpc = "running") =>
        /\ Len(log) <= Len(SinglePdfOrder)
        /\ \A i \in 1..Len(log) : log[i] = SinglePdfOrder[i]
        /\ Called("save") =>
              /\ ~dupReported
              /\ raised \in {None, "save"}
              /\ metrics = calculate_text_metrics(
                               extract_text_from_pdf(files[idx].content))
        /\ (Stage = "tally" /\ ~dupReported /\ raised \in {None, "save"}) =>
              log = SinglePdfOrder

\* C6 witness: the second file of a batch, no duplicate, has gone through
\* the five stages and was stored.
C6_Witness ==
    /\ loop = "process_pdf_batch"
    /\ Stage = "tally"
    /\ idx = 2
    /\ log = SinglePdfOrder
    /\ result.success /\ ~result.skipped
    /\ Cardinality(records) = 2

\* ===================================================================
\* Properties of the backend and the record store
\* ===================================================================

\* C2: in every reachable state of the record store at most one record
\* exists per non-null content hash value.
C2_UniqueHash ==
    \A r1 \in records : \A r2 \in records :
        (r1.md5_hash # None /\ r1.md5_hash = r2.md5_hash) => r1.id = r2.id

\* C2 witness: two records with different hashes are stored and an insert
\* of one of these hashes has just been rejected.
C2_Witness ==
    /\ \E r1 \in records : \E r2 \in records :
          r1.md5_hash = "" /\ r2.md5_hash = "H1"
    /\ pc["p1"] = "done"
    /\ resp["p1"].status = 500
    /\ \E r \in records : r.md5_hash = req["p1"].md5_hash

\* Both requests of a race reached the INSERT.
BothInserted(p, q) ==
    /\ p # q
    /\ pc[p] = "done" /\ pc[q] = "done"
    /\ req[p].md5_hash # None
    /\ req[p].md5_hash = req[q].md5_hash
    /\ calls[p][Len(calls[p])] = "insert"
    /\ calls[q][Len(calls[q])] = "insert"
    /\ ~delSince[p] /\ ~delSince[q]

Created(p) == resp[p].status = 200 /\ resp[p].success /\ ~resp[p].skipped

C7_DuplicateSubmitSkipped ==
    [][(/\ pc["p1"] = "idle" /\ pc'["p1"] # "idle"
        /\ req'["p1"].md5_hash # None
        /\ \E r \in records : r.md5_hash = req'["p1"].md5_hash)
       => (/\ pc'["p1"] = "done"
           /\ resp'["p1"] = SkippedResponse
           /\ calls'["p1"] = <<"check">>
           /\ records' = records)]_vars

C9_OnlySummaryRewritten ==
    [][\A r \in records : \A r2 \in records' :
          r2.id = r.id =>
            /\ r2.filename = r.filename
            /\ r2.extracted_text = r.extracted_text
            /\ r2.word_count = r.word_count
            /\ r2.character_length = r.character_length
            /\ r2.md5_hash = r.md5_hash
            /\ r2.created_timestamp = r.created_timestamp
            /\ (r2.summary # r.summary =>
                   upc = "summarize" /\ upc' = "done" /\ uid = r.id)]_vars

\* C9 witness: a summary update succeeded on one of two stored records
\* and the other record has no summary.
C9_Witness ==
    /\ upc = "done"
    /\ uresp.status = 200
    /\ \E r \in records : r.id = uid /\ r.summary = "llm"
    /\ \E r \in records : r.id # uid /\ r.summary = None

\* C10: update_summary on an id with no record ends at once with 404, on
\* a record without extracted text with 400; neither calls the summarizer
\* nor writes to the store.
C10_UpdateRejected ==
    [][(upc = "idle" /\ upc' # "idle") =>
          LET found == {r \in records : r.id = uid'}
          IN /\ found = {} =>
                  (/\ upc' = "done" /\ uresp'.status = 404
                   /\ ucalls' = <<"get">> /\ records' = records)
             /\ (found # {} /\ \A r \in found : r.extracted_text = << >>) =>
                  (/\ upc' = "done" /\ uresp'.status = 400
                   /\ ucalls' = <<"get">> /\ records' = records)]_vars

\* C10 witness: an update of a stored record with empty text was answered
\* 400 and the record still has no summary.
C10_Witness ==
    /\ upc = "done"
    /\ uresp.status = 400
    /\ ucalls = <<"get">>
    /\ \E r \in records : r.id = uid /\ r.extracted_text = << >> /\ r.summary = None

\* ===================================================================
\* Properties of the record store called directly
\* ===================================================================

RECURSIVE ColumnTotal(_, _, _)
ColumnTotal(recs, col, n) ==
    IF n = 0 THEN 0
    ELSE ColumnTotal(recs, col, n - 1)
         + (IF \E r \in recs : r.id = n
            THEN (CHOOSE r \in recs : r.id = n)[col] ELSE 0)

\* C12: whatever inserts, summary updates and deletes came before, stats
\* returns the number of stored rows and the sums of their word_count and
\* character_length, and <<0, 0, 0>> for the empty store.
C12_StatsAreSums ==
    dbop.op = "stats" =>
        /\ dbop.stats[1] = Cardinality(records)
        /\ dbop.stats[2] = ColumnTotal(records, "word_count", seq)
        /\ dbop.stats[3] = ColumnTotal(records, "character_length", seq)
        /\ records = {} => dbop.stats = <<0, 0, 0>>

\* C12 witness: stats over two rows with equal counts, one of them with an
\* updated summary.
C12_Witness ==
    /\ dbop.op = "stats"
    /\ dbop.stats = <<2, 4, 6>>
    /\ \E r \in records : r.summary = ""

\* C14: the id of an inserted row is greater than the id of every row
\* that ever existed, deleted ones included, and rows get an id only by
\* being inserted.
C14_IdsNeverReused ==
    [][LET new == {r.id : r \in records'} \ {r.id : r \in records}
       IN /\ \A n \in new : \A i \in ever : n > i
          /\ new # {} => (dbop'.op = "save" /\ dbop'.ok /\ new = {dbop'.id})]_vars

\* C14 witness: after the row with the highest id was deleted, an insert
\* got the next id.
C14_Witness ==
    /\ dbop.op = "save"
    /\ dbop.ok
    /\ ever = {1, 2}
    /\ {r.id : r \in records} = {2}

\* ===================================================================
\* Further properties of the backend
\* ===================================================================

\* C13 (as claimed): the word_count and character_length of every stored
\* record are the metrics of its extracted_text, whichever entry point
\* created it.
C13_MetricsMatchText ==
    \A r \in records :
        <<r.word_count, r.character_length>> = calculate_text_metrics(r.extracted_text)

\* ===================================================================
\* Properties of chunk_text
\* ===================================================================
Contains(text, sep) == FirstIndex(text, sep) > 0

\* A chunk that cannot be divided: no paragraph break and no sentence
\* break inside it.
SingleSentence(chunk) ==
    ~Contains(chunk, ParagraphBreak) /\ ~Contains(chunk, SentenceBreak)

WithinBudgetOrSingleSentence ==
    \A i \in 1..Len(chunking.chunks) :
        \/ Len(chunking.chunks[i]) \div 4 <= chunking.max_tokens
        \/ SingleSentence(chunking.chunks[i])

\* C15 (as claimed): a text of at most max_tokens estimated tokens comes
\* back as the one chunk <<text>>; a text over max_tokens comes back as
\* more than one chunk, each within max_tokens or a single sentence.
C15_ChunkBoundaryMoreThanOne ==
    chunking.called =>
        IF Len(chunking.text) \div 4 <= chunking.max_tokens
        THEN chunking.chunks = <<chunking.text>>
        ELSE Len(chunking.chunks) > 1 /\ WithinBudgetOrSingleSentence

\* The paragraphs of the text, those over max_tokens divided into their
\* sentences.
RECURSIVE Flatten(_)
Flatten(seqs) == IF seqs = << >> THEN << >> ELSE Head(seqs) \o Flatten(Tail(seqs))

TextPieces ==
    LET paragraphs == Split(chunking.text, ParagraphBreak)
    IN Flatten([i \in 1..Len(paragraphs) |->
                  IF Len(paragraphs[i]) \div 4 > chunking.max_tokens
                  THEN Split(paragraphs[i], SentenceBreak)
                  ELSE <<paragraphs[i]>>])

\* C15 (amended): a text of at most max_tokens estimated tokens comes back
\* as the one chunk <<text>>; of a text over max_tokens every chunk is
\* within max_tokens or a single sentence, and there is more than one
\* chunk when the text divides into two or more pieces none of which is
\* empty.
C15_ChunkBoundary ==
    chunking.called =>
        IF Len(chunking.text) \div 4 <= chunking.max_tokens
        THEN chunking.chunks = <<chunking.text>>
        ELSE /\ WithinBudgetOrSingleSentence
             /\ (Len(TextPieces) >= 2 /\ \A i \in 1..Len(TextPieces) : TextPieces[i] # << >>)
                    => Len(chunking.chunks) > 1

\* C15 witness: a text over max_tokens was divided into a chunk of two
\* short sentences and a chunk that is one oversized sentence.
C15_Witness ==
    /\ chunking.called
    /\ chunking.max_tokens = 0
    /\ Len(chunking.chunks) = 2
    /\ chunking.chunks[1] = <<"a">>
    /\ chunking.chunks[2] = <<"a", "a", "a", "a">>

\* The paragraphs of the text.
Paragraphs == Split(chunking.text, ParagraphBreak)

\* For each piece of TextPieces, the paragraph it is (part of).
PieceParagraphs ==
    Flatten([i \in 1..Len(Paragraphs) |->
               IF Len(Paragraphs[i]) \div 4 > chunking.max_tokens
               THEN [k \in 1..Len(Split(Paragraphs[i], SentenceBreak)) |-> i]
               ELSE <<i>>])

\* The first of the pieces at or after position k that is not empty: one
\* past the last piece when there is none.
SkipEmpty(pieces, k) ==
    LET rest == {i \in k..Len(pieces) : pieces[i] # << >>}
    IN  IF rest = {} THEN Len(pieces) + 1
        ELSE CHOOSE i \in rest : \A other \in rest : i <= other

\* The piece at which a chunk that starts with piece k ends: the chunk is
\* the pieces k..RunEnd joined by paragraph breaks or by sentence breaks;
\* 0 when the chunk is no such run.
RunEnd(pieces, chunk, k) ==
    LET ends == {m \in k..Len(pieces) :
                    \/ Join(SubSeq(pieces, k, m), ParagraphBreak) = chunk
                    \/ Join(SubSeq(pieces, k, m), SentenceBreak) = chunk}
    IN  IF ends = {} THEN 0
        ELSE CHOOSE m \in ends : \A other \in ends : m <= other

\* The first and last piece of each chunk when the chunks are consecutive
\* runs of the pieces, from piece k on, with nothing but empty pieces left
\* out between them; a first piece of 0 from the chunk on that is no such
\* run. One more entry follows the last chunk: the first piece that is
\* not empty and in no chunk, one past the last piece when there is none.
RECURSIVE Runs(_, _, _)
Runs(pieces, chunks, k) ==
    LET first == IF k = 0 THEN 0 ELSE SkipEmpty(pieces, k)
    IN  IF chunks = << >> THEN <<[first |-> first, last |-> 0]>>
        ELSE LET last == IF first = 0 THEN 0 ELSE RunEnd(pieces, Head(chunks), first)
             IN  <<[first |-> IF last = 0 THEN 0 ELSE first, last |-> last]>>
                    \o Runs(pieces, Tail(chunks), IF last = 0 THEN 0 ELSE last + 1)

\* Every piece that is not empty is in exactly one chunk, whole, in the
\* order of the text.
NothingDropped(pieces, runs) == runs[Len(runs)].first = Len(pieces) + 1

\* The j-th chunk would be over max_tokens with the paragraph of the
\* piece after it added.
ClosedWhenFull(runs, j) ==
    (Len(chunking.chunks[j]) + 2
        + Len(Paragraphs[PieceParagraphs[runs[j + 1].first]])) \div 4
            > chunking.max_tokens

\* The j-th chunk ends with the last sentence of a paragraph that was
\* divided into sentences.
ClosedAtParagraphEnd(runs, j) ==
    LET paragraph == PieceParagraphs[runs[j].last]
    IN  /\ Len(Paragraphs[paragraph]) \div 4 > chunking.max_tokens
        /\ PieceParagraphs[runs[j + 1].first] # paragraph

\* A piece that alone is over max_tokens is a chunk of its own.
OversizedWhole(pieces, runs) ==
    \A k \in 1..Len(pieces) :
        Len(pieces[k]) \div 4 > chunking.max_tokens
            => \E j \in 1..Len(chunking.chunks) :
                  runs[j].first = k /\ chunking.chunks[j] = pieces[k]

C16_BlankShortCircuits ==
    (spc # "idle" /\ (doc_text = << >> \/ IsBlank(doc_text))) =>
        /\ spc = "done"
        /\ doc_summary = << >>
        /\ chunk_calls = << >>
        /\ ~chunked

\* C16 witness: a text of three whitespace characters was answered.
C16_Witness ==
    /\ spc = "done"
    /\ doc_text = <<" ", "\n", "\t">>
    /\ doc_summary = << >>
    /\ chunk_calls = << >>

\* The fallback the claim describes for a chunk.
FallbackOf(chunk) ==
    IF Len(chunk) <= FALLBACK_CHARS THEN chunk
    ELSE [i \in 1..(FALLBACK_CHARS + 3) |->
             IF i <= FALLBACK_CHARS THEN chunk[i] ELSE "."]

\* C17: a call of summarize_chunk that finds no credential, fails or
\* times out yields the chunk itself, or its first FALLBACK_CHARS
\* characters followed by "...", whatever became of the other chunks; the
\* i-th chunk summary is what the i-th call yielded; summarize_document
\* never raises.
C17_FailurePerChunk ==
    /\ spc # "raised"
    /\ \A i \in 1..Len(chunk_calls) :
          /\ chunk_calls[i].outcome # "answered" =>
                chunk_calls[i].summary = FallbackOf(chunk_calls[i].chunk)
          /\ chunk_calls[i].outcome = "answered" =>
                chunk_calls[i].summary \in LlmAnswers
    /\ \A i \in 1..Len(chunk_summaries) :
          /\ chunk_calls[i].chunk = doc_chunks[i]
          /\ chunk_summaries[i] = chunk_calls[i].summary
    /\ (spc = "done" /\ chunk_calls # << >>) =>
          doc_summary = IF Len(chunk_calls) > Len(chunk_summaries)
                        THEN chunk_calls[Len(chunk_calls)].summary
                        ELSE Join(chunk_summaries, ParagraphBreak)

\* C17 witness: of two chunks the first was summarized by the service and
\* the request for the second timed out; the result joins the real
\* summary and the truncation.
C17_Witness ==
    /\ spc = "done"
    /\ Len(doc_chunks) = 2
    /\ chunk_calls[1].outcome = "answered"
    /\ chunk_calls[2].outcome = "timeout"
    /\ doc_summary = <<"s", "\n", "\n", "a", ".", ".", ".">>

\* ===================================================================
\* Further properties of the ingestion loops
\* ===================================================================

\* C18: when save_extracted_text returns False while a file's request is
\* served, the store is left as it was, the file's result is neither
\* processed nor skipped but success=false, the tally counts the file as
\* failed and the loop goes on to the next file.
C18_SaveFailureIsFailedFile ==
    [][/\ (saved # "failed" /\ saved' = "failed") =>
            /\ records' = records
            /\ seq' = seq
            /\ ~result'.success
            /\ ~result'.skipped
            /\ result'.error # None
            /\ bpc' = "running"
       /\ (saved = "failed" /\ counts' # counts) =>
            /\ counts' = [counts EXCEPT !.failed = @ + 1]
            /\ bpc' = "running"
            /\ (idx' = idx + 1 \/ (idx' = idx /\ Stage' = "cleanup"))]_vars

\* C18 witness: the save of the first file of a batch failed in the
\* store and was answered 500; the second file was processed and stored.
C18_Witness ==
    /\ bpc = "returned"
    /\ loop = "process_pdf_batch"
    /\ Len(results) = 2
    /\ results[1].result.error = "500 Server Error"
    /\ ~results[1].result.success
    /\ results[2].result.success /\ ~results[2].result.skipped
    /\ counts = [successful |-> 1, skipped |-> 0, failed |-> 1]
    /\ Cardinality(records) = 1

\* C19 (as claimed): in process_uploaded_files the staging copy of an
\* upload is gone before the next upload is staged and before the
\* function returns, however the file fared; at most one staging copy
\* exists at any time.
C19_StagingFileReleased ==
    (loop = "process_uploaded_files" /\ bpc \in {"running", "returned"}) =>
        /\ Cardinality(tempFiles) <= 1
        /\ Stage = "temp" => tempFiles = {}
        /\ idx > Len(files) => tempFiles = {}

\* ===================================================================
\* Further properties of the backend (continued)
\* ===================================================================
NoSummarizeCall(p) == \A i \in 1..Len(calls[p]) : calls[p][i] # "summarize"

\* C20: a submit with generate_summary=false calls no summarizer and its
\* record is stored with summary NULL and the submitted word_count and
\* character_length; a record is inserted with a summary only by a submit
\* with generate_summary=true that called the summarizer, and a stored
\* NULL summary is replaced only by an update_summary answered 200.
C20_SummaryOnlyAfterPass ==
    [][LET fresh == {r \in records' : \A o \in records : o.id # r.id}
       IN /\ (pc["p1"] = "save" /\ pc'["p1"] = "done"
                  /\ ~req["p1"].generate_summary) =>
                /\ NoSummarizeCall("p1")'
                /\ Created("p1")' => Cardinality(fresh) = 1
                /\ \A r \in fresh :
                      /\ r.summary = None
                      /\ r.word_count = req["p1"].word_count
                      /\ r.character_length = req["p1"].character_length
          /\ \A r \in fresh :
                r.summary # None =>
                    /\ pc["p1"] = "save"
                    /\ req["p1"].generate_summary
                    /\ ~NoSummarizeCall("p1")
          /\ \A o \in records : \A r \in records' :
                (r.id = o.id /\ o.summary = None /\ r.summary # None) =>
                    /\ upc = "summarize" /\ upc' = "done"
                    /\ uid = o.id
                    /\ uresp'.status = 200]_vars

\* C20 witness: a submit with generate_summary=false and the counts 7 and
\* 9 was stored with these counts and without a summary.
C20_Witness ==
    /\ pc["p1"] = "done"
    /\ ~req["p1"].generate_summary
    /\ Created("p1")
    /\ req["p1"].word_count = 7
    /\ \E r \in records :
          /\ r.id = seq
          /\ r.summary = None
          /\ r.word_count = 7
          /\ r.character_length = 9

\* ===================================================================
\* Properties of the text metrics
\* ===================================================================
\* The text without its character at position i.
Without(text, i) == SubSeq(text, 1, i - 1) \o SubSeq(text, i + 1, Len(text))

RECURSIVE BlankLineJoined(_)
BlankLineJoined(n) ==
    IF n = 0 THEN << >>
    ELSE IF n = 1 THEN chunk_calls[1].summary
    ELSE BlankLineJoined(n - 1) \o <<"\n", "\n">> \o chunk_calls[n].summary

\* summarize_document has returned.
Summarized == spc = "done"

\* C23 (as claimed): a call of summarize_document on a text whose token
\* count is within the per-chunk budget has made exactly one call of
\* summarize_chunk.
C23_OneCallWithinBudget ==
    (Summarized /\ count_tokens(doc_text) <= MAX_TOKENS_PER_CHUNK)
        => Len(chunk_calls) = 1

\* C23 (amended): summarize_document makes no call of summarize_chunk for
\* blank text and exactly one, on the whole text, for other text within the
\* budget; otherwise it makes one call per chunk, in chunk order, followed
\* by at most one collapse call on the joined summaries, made exactly when
\* the joined summaries exceed the budget: N or N + 1 calls for N chunks,
\* and never more while it runs.
C23_CallCounts ==
    /\ Len(chunk_calls) <= (IF chunked THEN Len(doc_chunks) + 1 ELSE 1)
    /\ Summarized =>
          IF IsBlank(doc_text)
          THEN chunk_calls = << >>
          ELSE IF count_tokens(doc_text) <= MAX_TOKENS_PER_CHUNK
          THEN /\ ~chunked
               /\ Len(chunk_calls) = 1
               /\ chunk_calls[1].chunk = doc_text
          ELSE LET N == Len(doc_chunks)
                   exceeds == Len(BlankLineJoined(N)) \div 4 > MAX_TOKENS_PER_CHUNK
               IN  /\ chunked
                   /\ Len(chunk_calls) = (IF exceeds THEN N + 1 ELSE N)
                   /\ \A i \in 1..N : chunk_calls[i].chunk = doc_chunks[i]
                   /\ exceeds => chunk_calls[N + 1].chunk = BlankLineJoined(N)

\* Two chunks were summarized and their joined summaries went through one
\* collapse call: three calls.
C23_Witness ==
    /\ Summarized
    /\ Len(doc_chunks) = 2
    /\ Len(chunk_calls) = 3

\* C24: when summarize_document chunked the text and made no collapse
\* call, it has called summarize_chunk on the chunks in chunk order and
\* returns the summaries those calls gave, in that order, each one separated
\* from the next by a blank line: none is moved, left out or merged.
C24_JoinedInChunkOrder ==
    (Summarized /\ chunked /\ Len(chunk_calls) <= Len(doc_chunks))
        => /\ Len(chunk_calls) = Len(doc_chunks)
           /\ \A i \in 1..Len(doc_chunks) :
                 /\ chunk_calls[i].chunk = doc_chunks[i]
                 /\ chunk_summaries[i] = chunk_calls[i].summary
           /\ doc_summary = BlankLineJoined(Len(doc_chunks))

\* Two chunks with different summaries, the fallback of the first and the
\* answer for the second, were joined in that order.
C24_Witness ==
    /\ Summarized
    /\ Len(doc_chunks) = 2
    /\ Len(chunk_calls) = 2
    /\ doc_summary = <<"a", ".", ".", ".", "\n", "\n", "s">>

\* ===================================================================
\* Properties of extract_text_from_pdf
\* ===================================================================
\* Rendering fails or OCR of some page fails.
SomeFailure(pdf) ==
    ~pdf.render_ok \/ \E i \in 1..Len(pdf.pages) : ~pdf.pages[i].ok

\* The positions of the page separators in a text.
MarkerPositions(text) ==
    {i \in 1..Len(text) : \E n \in 0..(MaxPages + 1) : text[i] = PageMarker(n)}

\* What follows the separator at position i, up to the next separator or
\* the end of the text.
AfterMarker(text, i) ==
    LET later == {j \in MarkerPositions(text) : j > i}
        stop == IF later = {} THEN Len(text) + 1
                ELSE CHOOSE j \in later : \A other \in later : j <= other
    IN  SubSeq(text, i + 1, stop - 1)

\* The text is the texts of the pages in page order, the N-th preceded by
\* the separator of page N, with nothing but line breaks added around them.
PagesInOrder(text, pages) ==
    /\ Cardinality(MarkerPositions(text)) = Len(pages)
    /\ pages = << >> => text = << >>
    /\ pages # << >> => text[1] = PageMarker(1)
    /\ \A i \in MarkerPositions(text) :
          LET N == Cardinality({j \in MarkerPositions(text) : j <= i})
          IN  /\ text[i] = PageMarker(N)
              /\ (N = Len(pages) /\ i = Len(text)) \/ text[i + 1] = "\n"
              /\ strip(AfterMarker(text, i)) = strip(pages[N].text)

\* C26: extract_text_from_pdf is all-or-nothing: when rendering or OCR of
\* any page fails, the call ends with the one error 'OCR processing
\* failed: <cause>' and returns no text; otherwise it returns the texts of
\* the pages in page order, each preceded by its separator '--- Page N ---'
\* with N counting from 1.
C26_AllOrNothing ==
    /\ ocr_pc # "done" => ocr_out = NoOutcome
    /\ ocr_pc = "done" =>
          IF SomeFailure(ocr_pdf)
          THEN /\ ocr_out.raised /\ ~ocr_out.returned
               /\ ocr_out.text = << >>
               /\ Len(ocr_out.error) = 2
               /\ ocr_out.error[1] = "OCR processing failed: "
               /\ ocr_out.error[2] = (IF ocr_pdf.render_ok THEN "tesseract" ELSE "render")
          ELSE /\ ocr_out.returned /\ ~ocr_out.raised
               /\ PagesInOrder(ocr_out.text, ocr_pdf.pages)

\* The first page was read and OCR of the second failed: an error and no
\* text.
C26_Witness ==
    /\ ocr_pc = "done"
    /\ ocr_pdf.render_ok
    /\ Len(ocr_pdf.pages) = 2
    /\ ocr_pdf.pages[1].ok /\ ocr_pdf.pages[1].text = <<"a">>
    /\ ~ocr_pdf.pages[2].ok
    /\ ocr_text # << >>
    /\ ocr_out.raised

\* ===================================================================
\* Properties of the delete button
\* ===================================================================
\* Among the runs, a click on the delete button of record R that sent no
\* request, with no other record selected in any later run.
ArmedEarlier(runs, R) ==
    \E j \in 1..Len(runs) :
        /\ runs[j].record_id = R
        /\ runs[j].delete_btn
        /\ ~runs[j].request
        /\ \A m \in (j + 1)..Len(runs) : runs[m].record_id \in {R, 0}

\* C27: two-step delete confirmation. A script run sends the delete
\* request for record R only on a click while the stored confirmation id
\* is R, after an earlier click on R with no other record selected in
\* between; a click while the stored confirmation id is not R only arms
\* the confirmation; a run that selects another record than the last one
\* resets the confirmation id to none and records the selection; a
\* successful delete clears the confirmation id and the last selected id.
C27_TwoStepDelete ==
    [][ui_log' # ui_log =>
        LET run == ui_log'[Len(ui_log')]
            R == run.record_id
        IN  /\ run.request =>
                  /\ run.delete_btn
                  /\ R # 0
                  /\ session_state.delete_confirmation_id = R
                  /\ ArmedEarlier(ui_log, R)
            /\ (run.delete_btn /\ session_state.delete_confirmation_id # R) =>
                  /\ ~run.request
                  /\ ui_deleted' = ui_deleted
                  /\ session_state'.delete_confirmation_id = R
            /\ (R # 0 /\ R # session_state.last_selected_record_id) =>
                  /\ ~run.request
                  /\ session_state'.delete_confirmation_id = (IF run.delete_btn THEN R ELSE 0)
                  /\ session_state'.last_selected_record_id = R
            /\ (run.request /\ run.success) =>
                  /\ session_state'.delete_confirmation_id = 0
                  /\ session_state'.last_selected_record_id = 0
            /\ ~(run.request /\ run.success) => ui_deleted' = ui_deleted]_vars

\* Record 1 was deleted by its second click, after record 2 had been
\* selected and record 1 selected and armed again.
C27_Witness ==
    /\ Len(ui_log) = 4
    /\ ui_log[1].record_id = 2
    /\ ui_log[2].record_id = 1 /\ ~ui_log[2].delete_btn
    /\ ui_log[3].record_id = 1 /\ ui_log[3].delete_btn /\ ~ui_log[3].request
    /\ ui_log[4].request /\ ui_log[4].success
    /\ ui_deleted = {1}
    /\ session_state = [delete_confirmation_id |-> 0, last_selected_record_id |-> 0]

\* ===================================================================
\* Deletion and deduplication
\* ===================================================================
\* The rows with hash H that were deleted, when no stored row has H now.
DeletedAndGone(H) ==
    IF \E r \in records : r.md5_hash = H THEN {}
    ELSE {d \in deleted : d.md5_hash = H}

C29_GuardFailsOpen ==
    [][/\ (loop \in DataProcessingLoops /\ log' = Append(log, "check")) =>
            /\ raised' = None
            /\ bpc' = "running"
            /\ dupReported' =>
                  /\ check_duplicate_by_hash(records, file_md5)
                  /\ result' = DuplicateResult
            /\ ~dupReported' =>
                  /\ result' = result
                  /\ Stage' = "extract"
       /\ (/\ loop \in DataProcessingLoops
           /\ log' = Append(log, "save")
           /\ check_duplicate_by_hash(records, file_md5)) =>
            /\ Called("extract")
            /\ records' = records
            /\ saved' # "ok"
            /\ (result'.skipped \/ ~result'.success)
       /\ \A r1, r2 \in records' :
             (r1.md5_hash # None /\ r1.md5_hash = r2.md5_hash) => r1.id = r2.id]_vars

\* The second file of a batch has the bytes of the first, which is stored;
\* its duplicate check reported nothing, OCR ran, the backend's lookup
\* failed as well and the insert was rejected: the file failed and the
\* store still has the one record.
C29_Witness ==
    /\ loop = "process_pdf_batch"
    /\ idx = 2
    /\ log = <<"hash", "check", "extract", "metrics", "save">>
    /\ ~dupReported
    /\ saved = "failed"
    /\ ~result.success
    /\ Cardinality(records) = 1
    /\ \E r \in records : r.md5_hash = file_md5

\* ===================================================================
\* A summary update racing with a deletion
\* ===================================================================
\* C30: when update_record_summary comes back from its summarization call
\* and the record it read is no longer stored (deleted in between), the
\* write changes no row, the store still has no record with that id, and
\* the call is answered with an error, not with success.
C30_UpdateNeverResurrects ==
    [][(/\ upc = "summarize"
        /\ upc' = "done"
        /\ get_record_by_id(records, uid) = {}) =>
            /\ uid \in ever
            /\ records' = records
            /\ get_record_by_id(records', uid) = {}
            /\ uresp'.status # 200
            /\ ~uresp'.success]_vars

\* Record 1 was read, deleted while its summary was being generated, and
\* the update then came back with 500; record 2 is stored as it was.
C30_Witness ==
    /\ upc = "done"
    /\ uid = 1
    /\ ucalls = <<"get", "summarize", "update">>
    /\ uresp = ErrorResponse(500, "Failed to update summary")
    /\ get_record_by_id(records, 1) = {}
    /\ 1 \in ever
    /\ \E r \in records : r.id = 2

====
